---- MODULE Spec2Model ----
(***************************************************************************)
(* Model of the persistence and batch-generation pipeline of the script    *)
(* image generator: the Record Store (src/lib/storage.ts, localStorage),   *)
(* the Blob Store (src/lib/imageStorage.ts, IndexedDB), the prompt         *)
(* assembler (buildScenePrompt) and the asynchronous handlers of the       *)
(* Characters and Generate pages.                                          *)
(*                                                                         *)
(* JavaScript values are represented as follows.  An object of a record    *)
(* type is a TLA+ record over the fields of the type that the pipeline     *)
(* reads or writes.  An optional field holds Undefined (<<>>) or Some(v)   *)
(* (<<v>>).  An array is a sequence.  A Partial<T> patch is a function     *)
(* whose domain is the set of keys the object literal lists.  The text     *)
(* kept in localStorage is the JSON of the value: an array of objects in   *)
(* which a key whose value is undefined does not occur.                    *)
(***************************************************************************)
EXTENDS Integers, Sequences, FiniteSets, TLC

VARIABLES
    ls,               \* localStorage: storage key -> JSON text
    images,           \* IndexedDB object store 'images': id -> record
    characterImages,  \* IndexedDB object store 'character-images': id -> record
    clock,            \* Date.now() / new Date()
    lastOp,           \* history: the last store operation, its target and its effect
    steps,            \* history: number of store operations or user events so far
    promptScene,      \* the Scene fields handleGenerateOne hands to buildScenePrompt
    promptCharacters, \* the Characters of that Scene, as handed to buildScenePrompt
    selectedStyle,    \* Generate: React state selectedStyle
    promptOut,        \* history: the last result of buildScenePrompt, if any
    charView,         \* Characters: React state characters (the rendered snapshot)
    charGenerating,   \* Characters: React state generating (a Character id, or unset)
    charError,        \* Characters: React state error
    charTasks,        \* Characters: the asynchronous handlers in flight, oldest first
    sceneView,        \* Generate: React state scenes (the rendered snapshot)
    sceneGenerating,  \* Generate: React state generating (a Scene id, or unset)
    sceneError,       \* Generate: React state error
    sceneTasks,       \* Generate: the asynchronous handlers in flight, oldest first
    seedTasks,        \* ScriptNew / ScriptDetail: the analyses in flight, oldest first
    seedError,        \* ScriptNew / ScriptDetail: React state error
    refCharacters,    \* the Characters of a Scene, as getSceneCharacters returns them
    refCache,         \* Generate: React state charImageCache, image id -> payload
    refOut            \* history: the last list handed to the image adapter, if any

storeVars == <<ls, images, characterImages, clock>>
historyVars == <<lastOp, steps>>
promptVars == <<promptScene, promptCharacters, selectedStyle, promptOut>>
charVars == <<charView, charGenerating, charError, charTasks>>
sceneVars == <<sceneView, sceneGenerating, sceneError, sceneTasks>>
seedVars == <<seedTasks, seedError>>
refVars == <<refCharacters, refCache, refOut>>
vars == <<storeVars, historyVars, promptVars, charVars, sceneVars, seedVars, refVars>>

(***************************************************************************)
(* Bounds of the model.                                                    *)
(***************************************************************************)
MaxClock == 1
MaxOps == 1
MaxTasks == 2
MaxFiles == 3
MaxClicks == 2

(***************************************************************************)
(* Generic helpers.                                                        *)
(***************************************************************************)
Undefined == <<>>
Some(v) == <<v>>
IsSet(o) == o # Undefined
Range(s) == {s[i] : i \in DOMAIN s}
Min(a, b) == IF a < b THEN a ELSE b

\* Array.prototype.slice(0, n)
SliceTo(s, n) == SubSeq(s, 1, Min(Len(s), n))

\* Array.prototype.filter((_, i) => i !== index), index counted from 0
RemoveAt(s, index) ==
    [i \in 1..(Len(s) - 1) |-> IF i <= index THEN s[i] ELSE s[i + 1]]

\* Array.prototype.findIndex, counted from 1; 0 stands for -1
RECURSIVE FindIndexFrom(_, _, _)
FindIndexFrom(s, id, i) ==
    IF i > Len(s) THEN 0
    ELSE IF s[i].id = id THEN i
    ELSE FindIndexFrom(s, id, i + 1)
FindIndex(s, id) == FindIndexFrom(s, id, 1)

\* { ...object, ...updates }
Spread(object, updates) ==
    [k \in (DOMAIN object) \cup (DOMAIN updates) |->
        IF k \in DOMAIN updates THEN updates[k] ELSE object[k]]

(***************************************************************************)
(* JSON.stringify / JSON.parse of an array of objects.                     *)
(***************************************************************************)
OptionalFields == {"selectedImage", "userEditedPrompt", "styleGuide"}

ScriptFields == {"id", "status", "styleGuide", "updatedAt"}
CharacterFields ==
    {"id", "scriptId", "name", "referenceImages", "selectedImage", "updatedAt"}
SceneFields ==
    {"id", "scriptId", "sceneNumber", "characterIds", "generatedImages",
     "selectedImage", "status", "userEditedPrompt", "updatedAt"}

\* A key whose value is undefined is left out of the text.
StringifyObject(o) ==
    [k \in {f \in DOMAIN o : ~(f \in OptionalFields /\ o[f] = Undefined)} |->
        IF k \in OptionalFields THEN o[k][1] ELSE o[k]]
JSONstringify(data) == [i \in DOMAIN data |-> StringifyObject(data[i])]

\* A key the text does not hold reads as undefined.
ParseObject(t, fields) ==
    [f \in fields |->
        IF f \in OptionalFields
        THEN IF f \in DOMAIN t THEN Some(t[f]) ELSE Undefined
        ELSE t[f]]
JSONparse(text, fields) == [i \in DOMAIN text |-> ParseObject(text[i], fields)]

(***************************************************************************)
(* src/lib/storage.ts                                                      *)
(***************************************************************************)
STORAGE_PREFIX == "script-image-generator:"

\* Faulty variant of saveData: the key is written without STORAGE_PREFIX.
saveData_NoPrefix(store, key, data) ==
    [k \in (DOMAIN store) \cup {key} |->
        IF k = key THEN JSONstringify(data) ELSE store[k]]

\* localStorage.setItem(STORAGE_PREFIX + key, JSON.stringify(data))
saveData(store, key, data) ==
    [k \in (DOMAIN store) \cup {STORAGE_PREFIX \o key} |->
        IF k = STORAGE_PREFIX \o key THEN JSONstringify(data) ELSE store[k]]

\* data ? JSON.parse(data) : null ; null is Undefined, a value v is Some(v)
loadData(store, key, fields) ==
    IF (STORAGE_PREFIX \o key) \in DOMAIN store
    THEN Some(JSONparse(store[STORAGE_PREFIX \o key], fields))
    ELSE Undefined

\* loadData(key) || []
OrEmpty(loaded) == IF loaded = Undefined THEN <<>> ELSE loaded[1]

loadScripts(store) == OrEmpty(loadData(store, "scripts", ScriptFields))
saveScripts(store, scripts) == saveData(store, "scripts", scripts)
loadCharacters(store) == OrEmpty(loadData(store, "characters", CharacterFields))
saveCharacters(store, characters) == saveData(store, "characters", characters)
loadScenes(store) == OrEmpty(loadData(store, "scenes", SceneFields))
saveScenes(store, scenes) == saveData(store, "scenes", scenes)

\* find(x => x.id === id): Undefined or Some(record)
Find(s, id) ==
    IF FindIndex(s, id) = 0 THEN Undefined ELSE Some(s[FindIndex(s, id)])

getScript(store, id) == Find(loadScripts(store), id)
getCharacter(store, id) == Find(loadCharacters(store), id)
getScene(store, id) == Find(loadScenes(store), id)

getCharactersByScript(store, scriptId) ==
    LET Keep(c) == c.scriptId = scriptId
    IN  SelectSeq(loadCharacters(store), Keep)

\* Array.prototype.sort with (a, b) => a.sceneNumber - b.sceneNumber: stable
RECURSIVE SortBySceneNumber(_)
SortBySceneNumber(s) ==
    IF Len(s) <= 1 THEN s
    ELSE LET last == s[Len(s)]
             init == SortBySceneNumber(SubSeq(s, 1, Len(s) - 1))
             Before(x) == x.sceneNumber <= last.sceneNumber
             After(x) == x.sceneNumber > last.sceneNumber
         IN  SelectSeq(init, Before) \o <<last>> \o SelectSeq(init, After)

getScenesByScript(store, scriptId) ==
    LET Keep(s) == s.scriptId = scriptId
    IN  SortBySceneNumber(SelectSeq(loadScenes(store), Keep))

\* Faulty variant of Merged: the spreads are swapped, the stored fields win.
Merged_RecordWins(record, updates, now) ==
    Spread(Spread(updates, record), [updatedAt |-> now])

\* records[index] = { ...records[index], ...updates, updatedAt: now }
Merged(record, updates, now) ==
    Spread(Spread(record, updates), [updatedAt |-> now])

UpdateIn(records, id, updates, now) ==
    [i \in DOMAIN records |->
        IF i = FindIndex(records, id)
        THEN Merged(records[i], updates, now)
        ELSE records[i]]

addScript(store, script) ==
    saveScripts(store, Append(loadScripts(store), script))
addCharacter(store, character) ==
    saveCharacters(store, Append(loadCharacters(store), character))
addScene(store, scene) ==
    saveScenes(store, Append(loadScenes(store), scene))

updateScript(store, id, updates, now) ==
    IF FindIndex(loadScripts(store), id) # 0
    THEN saveScripts(store, UpdateIn(loadScripts(store), id, updates, now))
    ELSE store
updateCharacter(store, id, updates, now) ==
    IF FindIndex(loadCharacters(store), id) # 0
    THEN saveCharacters(store, UpdateIn(loadCharacters(store), id, updates, now))
    ELSE store
updateScene(store, id, updates, now) ==
    IF FindIndex(loadScenes(store), id) # 0
    THEN saveScenes(store, UpdateIn(loadScenes(store), id, updates, now))
    ELSE store

deleteCharacter(store, id) ==
    LET Keep(c) == c.id # id
    IN  saveCharacters(store, SelectSeq(loadCharacters(store), Keep))
deleteScene(store, id) ==
    LET Keep(s) == s.id # id
    IN  saveScenes(store, SelectSeq(loadScenes(store), Keep))

\* Faulty variant of deleteScript: the scenes are filtered by their own id.
deleteScript_SceneById(store, id) ==
    LET KeepScript(s) == s.id # id
        KeepOther(r) == r.scriptId # id
        s1 == saveScripts(store, SelectSeq(loadScripts(store), KeepScript))
        s2 == saveCharacters(s1, SelectSeq(loadCharacters(s1), KeepOther))
    IN  saveScenes(s2, SelectSeq(loadScenes(s2), KeepScript))

deleteScript(store, id) ==
    LET KeepScript(s) == s.id # id
        KeepOther(r) == r.scriptId # id
        s1 == saveScripts(store, SelectSeq(loadScripts(store), KeepScript))
        s2 == saveCharacters(s1, SelectSeq(loadCharacters(s1), KeepOther))
    IN  saveScenes(s2, SelectSeq(loadScenes(s2), KeepOther))

\* saveAnalysisResult without its filters
saveAnalysisResult_KeepsOld(store, scriptId, characters, scenes) ==
    saveScenes(saveCharacters(store, loadCharacters(store) \o characters),
               loadScenes(store) \o scenes)
saveAnalysisResult(store, scriptId, characters, scenes) ==
    LET KeepOther(r) == r.scriptId # scriptId
        existingCharacters == SelectSeq(loadCharacters(store), KeepOther)
        existingScenes == SelectSeq(loadScenes(store), KeepOther)
        s1 == saveCharacters(store, existingCharacters \o characters)
    IN  saveScenes(s1, existingScenes \o scenes)

(***************************************************************************)
(* src/lib/imageStorage.ts: the two IndexedDB object stores, keyPath 'id'. *)
(***************************************************************************)
\* `${sceneId}_${imageIndex}_${Date.now()}`
SceneImageId(sceneId, imageIndex, now) ==
    sceneId \o "_" \o ToString(imageIndex) \o "_" \o ToString(now)

\* `char_${characterId}_${imageIndex}_${Date.now()}`
CharacterImageId(characterId, imageIndex, now) ==
    "char_" \o characterId \o "_" \o ToString(imageIndex) \o "_" \o ToString(now)

\* store.put(record): a record with the same key is replaced
Put(objectStore, record) ==
    [k \in (DOMAIN objectStore) \cup {record.id} |->
        IF k = record.id THEN record ELSE objectStore[k]]

saveImage(objectStore, sceneId, imageIndex, imageData, now) ==
    Put(objectStore,
        [id |-> SceneImageId(sceneId, imageIndex, now), owner |-> sceneId,
         imageIndex |-> imageIndex, data |-> imageData, createdAt |-> now])

saveCharacterImage(objectStore, characterId, imageIndex, imageData, now) ==
    Put(objectStore,
        [id |-> CharacterImageId(characterId, imageIndex, now),
         owner |-> characterId, imageIndex |-> imageIndex, data |-> imageData,
         createdAt |-> now])

\* request.result?.data || null
getImage(objectStore, imageId) ==
    IF imageId \in DOMAIN objectStore /\ objectStore[imageId].data # ""
    THEN Some(objectStore[imageId].data)
    ELSE Undefined

\* store.getAll() filtered by owner: the ids of the owner's records
getImagesByOwner(objectStore, ownerId) ==
    {k \in DOMAIN objectStore : objectStore[k].owner = ownerId}

\* store.delete(imageId)
deleteImage(objectStore, imageId) ==
    [k \in (DOMAIN objectStore) \ {imageId} |-> objectStore[k]]

\* for (const img of images) await deleteImage(img.id), run to its end
deleteImagesByScene(objectStore, sceneId) ==
    [k \in (DOMAIN objectStore) \ getImagesByOwner(objectStore, sceneId) |->
        objectStore[k]]

EmptyStore == [k \in {} |-> <<>>]

\* History: no storage call has been made.
NoPatch == [k \in {} |-> <<>>]
NoOp == [op |-> "none", id |-> "", hit |-> FALSE, updates |-> NoPatch,
         data |-> <<>>, before |-> <<0, 0, 0>>]

\* No analysis in flight and none failed.
SeedIdle ==
    /\ seedTasks = <<>>
    /\ seedError = ""

\* No reference images collected.
RefIdle ==
    /\ refCharacters = <<>>
    /\ refCache = <<>>
    /\ refOut = <<>>

\* The Generate page with nothing rendered and no handler in flight.
SceneIdle ==
    /\ sceneView = <<>>
    /\ sceneGenerating = Undefined
    /\ sceneError = ""
    /\ sceneTasks = <<>>

\* The Characters page with nothing rendered and no handler in flight.
CharIdle ==
    /\ charView = <<>>
    /\ charGenerating = Undefined
    /\ charError = ""
    /\ charTasks = <<>>

(***************************************************************************)
(* src/lib/imageStorage.ts (gemini): the prompt assembler.                 *)
(***************************************************************************)
ImageStyles == {"realistic", "anime", "cinematic", "watercolor", "comic"}

getStyleModifier(style) ==
    CASE style = "realistic" ->
           "Photorealistic, high-resolution photograph, natural lighting, realistic skin texture, shot on professional camera, 8K quality"
      [] style = "anime" ->
           "Japanese anime style, vibrant colors, clean line art, expressive eyes, detailed background, Studio Ghibli quality"
      [] style = "cinematic" ->
           "Cinematic movie still, dramatic lighting, shallow depth of field, anamorphic lens flare, film grain, Hollywood production quality"
      [] style = "watercolor" ->
           "Soft watercolor painting, delicate brush strokes, gentle color blending, artistic and dreamy atmosphere"
      [] style = "comic" ->
           "Comic book style, bold outlines, dynamic composition, graphic novel aesthetic, cel shading"
      [] OTHER -> "High quality illustration"

\* A string-valued optional field is truthy when it is set and not empty.
Truthy(o) == o # Undefined /\ o # Some("")

\* value || fallback
OrElse(o, fallback) == IF Truthy(o) THEN o[1] ELSE fallback

\* Array.prototype.join(separator) of an array of strings
RECURSIVE Join(_, _)
Join(strings, separator) ==
    IF Len(strings) = 0 THEN ""
    ELSE IF Len(strings) = 1 THEN strings[1]
    ELSE strings[1] \o separator \o Join(Tail(strings), separator)

\* [age, gender, height, hair, face, skinTone, ...(features || [])].filter(Boolean)
AppearanceFeatures(app) ==
    LET listed == <<app.age, app.gender, app.height, app.hair, app.face,
                    app.skinTone>>
                  \o (IF app.features = Undefined THEN <<>>
                      ELSE [i \in DOMAIN app.features[1] |-> Some(app.features[1][i])])
        kept == SelectSeq(listed, Truthy)
    IN  [i \in DOMAIN kept |-> kept[i][1]]

CharacterDescription(char) ==
    "- " \o char.name \o ": " \o Join(AppearanceFeatures(char.appearance), ", ")
         \o ". Outfit: " \o OrElse(char.defaultOutfit, "casual")

\* Faulty variant of buildScenePrompt: the override is merged behind the style modifier.
buildScenePrompt_Merging(scene, characters, style) ==
    IF Truthy(scene.userEditedPrompt)
    THEN getStyleModifier(style) \o "\n\n" \o scene.userEditedPrompt[1]
    ELSE getStyleModifier(style)

buildScenePrompt(scene, characters, style) ==
    IF Truthy(scene.userEditedPrompt)
    THEN scene.userEditedPrompt[1]
    ELSE getStyleModifier(style)
         \o "\n\nSCENE:\n- Location: " \o OrElse(scene.location, "unspecified")
         \o "\n- Time: " \o OrElse(scene.timeOfDay, "day")
         \o "\n\nCHARACTERS (match the reference images exactly):\n"
         \o Join([i \in DOMAIN characters |-> CharacterDescription(characters[i])], "\n")
         \o "\n\nSCENE DESCRIPTION:\n"
         \o OrElse(scene.visualDescription, "No description")
         \o "\n\nCRITICAL REQUIREMENTS:\n- Characters MUST match the provided reference images exactly\n- Maintain consistent facial features, hair style, and body proportions\n- Follow the specified art style strictly\n- High quality, professional composition"

(***************************************************************************)
(* SpecPrompt: the prompt of one Scene, as the Scenes page edits it and    *)
(* the Generate page builds it.                                            *)
(***************************************************************************)
NoAppearance ==
    [age |-> Undefined, gender |-> Undefined, height |-> Undefined,
     hair |-> Undefined, face |-> Undefined, skinTone |-> Undefined,
     features |-> Undefined]

SampleAppearances ==
    { NoAppearance,
      [NoAppearance EXCEPT !.age = Some("mid-20s"), !.gender = Some(""),
                           !.hair = Some("short black hair"),
                           !.features = Some(<<"scar", "glasses">>)] }

SamplePromptCharacters ==
    { <<>>,
      <<[name |-> "Anna", appearance |-> NoAppearance, defaultOutfit |-> Undefined]>> }
    \cup
    { <<[name |-> "Anna", appearance |-> a, defaultOutfit |-> Some("red coat")],
        [name |-> "Bob", appearance |-> NoAppearance, defaultOutfit |-> Some("")]>> :
        a \in SampleAppearances }

\* What the user may leave in the prompt textarea when saving.
PromptTexts == {"", "a blue door at night"}

PromptInit ==
    /\ promptScene \in
         { [location |-> l, timeOfDay |-> t, visualDescription |-> v,
            userEditedPrompt |-> Undefined] :
             l \in {Undefined, Some("cafe")},
             t \in {Undefined, Some("night")},
             v \in {Undefined, Some("Anna drinks coffee.")} }
    /\ promptCharacters \in SamplePromptCharacters
    /\ selectedStyle = "realistic"
    /\ promptOut = Undefined
    /\ ls = EmptyStore /\ images = EmptyStore /\ characterImages = EmptyStore
    /\ clock = 1 /\ lastOp = NoOp /\ steps = 0
    /\ CharIdle
    /\ SceneIdle
    /\ SeedIdle
    /\ RefIdle

PromptIdle ==
    /\ promptScene = [location |-> Undefined, timeOfDay |-> Undefined,
                      visualDescription |-> Undefined, userEditedPrompt |-> Undefined]
    /\ promptCharacters = <<>>
    /\ selectedStyle = "realistic"
    /\ promptOut = Undefined

\* Scenes.tsx handleSavePrompt: onUpdate({ userEditedPrompt: promptText })
HandleSavePrompt ==
    \E promptText \in PromptTexts :
        /\ promptScene' = [promptScene EXCEPT !.userEditedPrompt = Some(promptText)]
        /\ promptOut' = Undefined
        /\ UNCHANGED <<promptCharacters, selectedStyle, storeVars, historyVars, charVars, sceneVars, seedVars, refVars>>

\* Generate: setSelectedStyle(style.id)
SetSelectedStyle ==
    \E style \in ImageStyles :
        /\ style # selectedStyle
        /\ selectedStyle' = style
        /\ promptOut' = Undefined
        /\ UNCHANGED <<promptScene, promptCharacters, storeVars, historyVars, charVars, sceneVars, seedVars, refVars>>

\* Generate handleGenerateOne: const prompt = buildScenePrompt(...)
BuildPrompt ==
    /\ promptOut' = Some(buildScenePrompt(promptScene, promptCharacters, selectedStyle))
    /\ UNCHANGED <<promptScene, promptCharacters, selectedStyle, storeVars, historyVars, charVars, sceneVars, seedVars, refVars>>

PromptNext == HandleSavePrompt \/ SetSelectedStyle \/ BuildPrompt

SpecPrompt == PromptInit /\ [][PromptNext]_vars

\* C10 as amended: a userEditedPrompt that is a non-empty string is returned
\* exactly, whatever the characters, the style and the other scene fields are.
C10_NonEmptyOverrideWins ==
    (promptOut # Undefined /\ Truthy(promptScene.userEditedPrompt))
        => promptOut[1] = promptScene.userEditedPrompt[1]

\* The override was returned for a Scene with fields, Characters and a style
\* that would otherwise have shaped the prompt.
C10_Witness ==
    /\ promptOut = Some("a blue door at night")
    /\ promptScene.userEditedPrompt = Some("a blue door at night")
    /\ promptScene.location # Undefined
    /\ Len(promptCharacters) = 2
    /\ selectedStyle = "anime"

\* C10 as stated: whenever userEditedPrompt is set (the empty string that
\* handleSavePrompt stores included) the result is exactly that string.
C10_AnySetOverrideWins ==
    (promptOut # Undefined /\ promptScene.userEditedPrompt # Undefined)
        => promptOut[1] = promptScene.userEditedPrompt[1]

(***************************************************************************)
(* Record constructors (src/types/index.ts) and the identifiers in use.    *)
(***************************************************************************)
ScriptIds == {"s1", "s2"}
CharacterIdPool == <<"c1", "c2", "c3", "c4", "c5", "c6">>
SceneIdPool == <<"n1", "n2", "n3", "n4", "n5", "n6">>
CharacterIds == Range(CharacterIdPool)
SceneIds == Range(SceneIdPool)

Script(id, status, styleGuide, now) ==
    [id |-> id, status |-> status, styleGuide |-> styleGuide, updatedAt |-> now]

Character(id, scriptId, name, referenceImages, selectedImage, now) ==
    [id |-> id, scriptId |-> scriptId, name |-> name,
     referenceImages |-> referenceImages, selectedImage |-> selectedImage,
     updatedAt |-> now]

Scene(id, scriptId, sceneNumber, characterIds, generatedImages, selectedImage, status, userEditedPrompt, now) ==
    [id |-> id, scriptId |-> scriptId, sceneNumber |-> sceneNumber,
     characterIds |-> characterIds, generatedImages |-> generatedImages,
     selectedImage |-> selectedImage, status |-> status,
     userEditedPrompt |-> userEditedPrompt, updatedAt |-> now]

\* uuidv4(): an identifier no record of the collection carries
RECURSIVE FirstUnused(_, _, _)
FirstUnused(pool, used, i) ==
    IF i > Len(pool) THEN 0
    ELSE IF pool[i] \notin used THEN i
    ELSE FirstUnused(pool, used, i + 1)
IdsOf(records) == {records[i].id : i \in DOMAIN records}
HasFresh(pool, records) == FirstUnused(pool, IdsOf(records), 1) # 0
Fresh(pool, records) == pool[FirstUnused(pool, IdsOf(records), 1)]

\* The identifiers a caller may pass: those of the records, and one of no record.
Targets(pool, records) ==
    IdsOf(records) \cup
    (IF HasFresh(pool, records) THEN {Fresh(pool, records)} ELSE {})

(***************************************************************************)
(* SpecStore: the Record Store API applied to well-formed stores.          *)
(***************************************************************************)
SampleScripts ==
    { <<>>,
      <<Script("s1", "ready", Undefined, 0)>>,
      <<Script("s1", "ready", Some("noir"), 0), Script("s2", "draft", Undefined, 0)>>,
      <<Script("s2", "analyzing", Undefined, 0), Script("s1", "ready", Undefined, 0)>> }

SampleCharacters ==
    { <<>>,
      <<Character("c1", "s1", "Anna", <<>>, Undefined, 0)>>,
      <<Character("c1", "s1", "Anna", <<"char_c1_0_0">>, Some("char_c1_0_0"), 0),
        Character("c2", "s2", "Bob", <<>>, Undefined, 0)>>,
      <<Character("c1", "s2", "Anna", <<>>, Undefined, 0),
        Character("c2", "s1", "Bob", <<"char_c2_0_0">>, Undefined, 0),
        Character("c3", "s1", "Cho", <<>>, Undefined, 0)>> }

SampleScenes ==
    { <<>>,
      <<Scene("n1", "s1", 1, <<"c1">>, <<>>, Undefined, "pending", Undefined, 0)>>,
      <<Scene("n1", "s1", 2, <<>>, <<"n1_0_0">>, Some("n1_0_0"), "completed",
              Some("a red door"), 0),
        Scene("n2", "s2", 1, <<>>, <<>>, Undefined, "pending", Undefined, 0),
        Scene("n3", "s1", 1, <<"c2">>, <<>>, Undefined, "failed", Undefined, 0)>> }

\* The image records behind a collection's image ids: each was saved for its
\* owner, at the index it holds in the owner's list, at time 0.
InlinePayloads == {"data:image/png;base64,AAAA"}
ImageRecordsOf(owners, ids) ==
    [k \in UNION {Range(ids[i]) \ InlinePayloads : i \in DOMAIN owners} |->
        LET i == CHOOSE i \in DOMAIN owners : k \in Range(ids[i])
            j == CHOOSE j \in DOMAIN ids[i] : ids[i][j] = k
        IN  [id |-> k, owner |-> owners[i].id, imageIndex |-> j - 1,
             data |-> "png", createdAt |-> 0]]
CharacterImagesOf(characters) ==
    ImageRecordsOf(characters, [i \in DOMAIN characters |-> characters[i].referenceImages])
SceneImagesOf(scenes) ==
    ImageRecordsOf(scenes, [i \in DOMAIN scenes |-> scenes[i].generatedImages])

StoreOf(scripts, characters, scenes) ==
    saveScenes(saveCharacters(saveScripts(EmptyStore, scripts), characters), scenes)

ScriptPatches ==
    { [status |-> "draft"],
      [status |-> "ready", styleGuide |-> Some("pastel")],
      [status |-> "ready", styleGuide |-> Undefined] }
CharacterPatches ==
    { [name |-> "Zed"],
      [referenceImages |-> <<"char_x_0_1">>, selectedImage |-> Some("char_x_0_1")],
      [referenceImages |-> <<>>, selectedImage |-> Undefined] }
ScenePatches ==
    { [status |-> "generating"],
      [userEditedPrompt |-> Some("a blue door")],
      [generatedImages |-> <<"x_0_1">>, selectedImage |-> Some("x_0_1"),
       status |-> "completed"] }


StoreInit ==
    /\ ls \in {EmptyStore} \cup
              {StoreOf(a, b, c) : a \in SampleScripts, b \in SampleCharacters,
                                  c \in SampleScenes}
    /\ images = SceneImagesOf(loadScenes(ls))
    /\ characterImages = CharacterImagesOf(loadCharacters(ls))
    /\ clock = 1
    /\ lastOp = NoOp
    /\ steps = 0
    /\ PromptIdle
    /\ CharIdle
    /\ SceneIdle
    /\ SeedIdle
    /\ RefIdle

\* One call of the API: the store it leaves, and what was called with what.
Apply(newStore, op, id, hit, updates, data) ==
    /\ steps < MaxOps
    /\ ls' = newStore
    /\ lastOp' = [op |-> op, id |-> id, hit |-> hit, updates |-> updates,
                  data |-> data,
                  before |-> <<Len(loadScripts(ls)), Len(loadCharacters(ls)),
                               Len(loadScenes(ls))>>]
    /\ steps' = steps + 1
    /\ UNCHANGED <<images, characterImages, clock, promptVars, sceneVars, seedVars, refVars, charVars>>

\* Time passes.  The run starts at time 1; what is stored at the start was
\* written at time 0.
Tick ==
    /\ clock <= MaxClock
    /\ clock' = clock + 1
    /\ UNCHANGED <<ls, images, characterImages, historyVars, promptVars, sceneVars, seedVars, refVars, charVars>>

AddScript ==
    \E id \in ScriptIds \ IdsOf(loadScripts(ls)) :
        Apply(addScript(ls, Script(id, "analyzing", Undefined, clock)),
              "addScript", id, TRUE, NoPatch, <<>>)
UpdateScript ==
    \E id \in ScriptIds, updates \in ScriptPatches :
        Apply(updateScript(ls, id, updates, clock), "updateScript", id,
              id \in IdsOf(loadScripts(ls)), updates, <<>>)
DeleteScript ==
    \E id \in ScriptIds :
        Apply(deleteScript(ls, id), "deleteScript", id,
              id \in IdsOf(loadScripts(ls)), NoPatch, <<>>)

AddCharacter ==
    \E scriptId \in ScriptIds :
        /\ HasFresh(CharacterIdPool, loadCharacters(ls))
        /\ Apply(addCharacter(ls, Character(Fresh(CharacterIdPool, loadCharacters(ls)),
                                            scriptId, "Dee", <<>>, Undefined, clock)),
                 "addCharacter", Fresh(CharacterIdPool, loadCharacters(ls)), TRUE,
                 NoPatch, <<>>)
UpdateCharacter ==
    \E id \in Targets(CharacterIdPool, loadCharacters(ls)), updates \in CharacterPatches :
        Apply(updateCharacter(ls, id, updates, clock), "updateCharacter", id,
              id \in IdsOf(loadCharacters(ls)), updates, <<>>)
DeleteCharacter ==
    \E id \in Targets(CharacterIdPool, loadCharacters(ls)) :
        Apply(deleteCharacter(ls, id), "deleteCharacter", id,
              id \in IdsOf(loadCharacters(ls)), NoPatch, <<>>)

AddScene ==
    \E scriptId \in ScriptIds, sceneNumber \in 1..2 :
        /\ HasFresh(SceneIdPool, loadScenes(ls))
        /\ Apply(addScene(ls, Scene(Fresh(SceneIdPool, loadScenes(ls)), scriptId,
                                    sceneNumber, <<>>, <<>>, Undefined, "pending",
                                    Undefined, clock)),
                 "addScene", Fresh(SceneIdPool, loadScenes(ls)), TRUE, NoPatch, <<>>)
UpdateScene ==
    \E id \in Targets(SceneIdPool, loadScenes(ls)), updates \in ScenePatches :
        Apply(updateScene(ls, id, updates, clock), "updateScene", id,
              id \in IdsOf(loadScenes(ls)), updates, <<>>)
DeleteScene ==
    \E id \in Targets(SceneIdPool, loadScenes(ls)) :
        Apply(deleteScene(ls, id), "deleteScene", id,
              id \in IdsOf(loadScenes(ls)), NoPatch, <<>>)

\* saveScripts / saveCharacters / saveScenes called with a whole collection
SaveScripts ==
    \E scripts \in SampleScripts :
        Apply(saveScripts(ls, scripts), "saveScripts", "", TRUE, NoPatch, scripts)
SaveCharacters ==
    \E characters \in SampleCharacters :
        Apply(saveCharacters(ls, characters), "saveCharacters", "", TRUE, NoPatch,
              characters)
SaveScenes ==
    \E scenes \in SampleScenes :
        Apply(saveScenes(ls, scenes), "saveScenes", "", TRUE, NoPatch, scenes)

\* saveAnalysisResult called as handleSubmit and handleReanalyze call it: with
\* Characters and Scenes made for the Script, under ids of no stored record
SaveAnalysisResult ==
    \E scriptId \in ScriptIds, nc \in 0..2, ns \in 0..2 :
        LET UnusedCharacter(id) == id \notin IdsOf(loadCharacters(ls))
            UnusedScene(id) == id \notin IdsOf(loadScenes(ls))
            characterIds == SubSeq(SelectSeq(CharacterIdPool, UnusedCharacter), 1, nc)
            sceneIds == SubSeq(SelectSeq(SceneIdPool, UnusedScene), 1, ns)
            characters == [i \in 1..nc |->
                              Character(characterIds[i], scriptId, "Eve", <<>>,
                                        Undefined, clock)]
            scenes == [i \in 1..ns |->
                          Scene(sceneIds[i], scriptId, i, characterIds, <<>>, Undefined,
                                "pending", Undefined, clock)]
        IN  Apply(saveAnalysisResult(ls, scriptId, characters, scenes),
                  "saveAnalysisResult", scriptId, TRUE, NoPatch, <<characters, scenes>>)

StoreNext ==
    \/ Tick
    \/ SaveAnalysisResult
    \/ AddScript \/ UpdateScript \/ DeleteScript
    \/ AddCharacter \/ UpdateCharacter \/ DeleteCharacter
    \/ AddScene \/ UpdateScene \/ DeleteScene
    \/ SaveScripts \/ SaveCharacters \/ SaveScenes

SpecStore == StoreInit /\ [][StoreNext]_vars

(***************************************************************************)
(* Record Store claims, checked under SpecStore.                           *)
(***************************************************************************)
Applied(op) == lastOp'.op = op /\ steps' = steps + 1

\* C6: deleteScript(S) removes the Script S and every Character and Scene
\* whose scriptId is S; every other Script, Character and Scene stays, with
\* the same content and in the same relative order.
C6_DeleteScriptCascade ==
    [][Applied("deleteScript") =>
        LET S == lastOp'.id
            OtherScript(r) == r.id # S
            OtherOwner(r) == r.scriptId # S
        IN  /\ \A r \in Range(loadScripts(ls')) : r.id # S
            /\ \A r \in Range(loadCharacters(ls')) : r.scriptId # S
            /\ \A r \in Range(loadScenes(ls')) : r.scriptId # S
            /\ loadScripts(ls') = SelectSeq(loadScripts(ls), OtherScript)
            /\ loadCharacters(ls') = SelectSeq(loadCharacters(ls), OtherOwner)
            /\ loadScenes(ls') = SelectSeq(loadScenes(ls), OtherOwner)]_vars

\* A script was deleted with Characters and Scenes of its own, while
\* Characters and Scenes of another script stayed.
C6_Witness ==
    /\ lastOp.op = "deleteScript"
    /\ lastOp.hit
    /\ 0 < Len(loadCharacters(ls)) /\ Len(loadCharacters(ls)) < lastOp.before[2]
    /\ 0 < Len(loadScenes(ls)) /\ Len(loadScenes(ls)) < lastOp.before[3]
    /\ Len(loadScripts(ls)) = lastOp.before[1] - 1

\* C7: after deleteScript(id) of a stored Script no record remains in the images or the
\* character-images object store whose owner is a Scene or a Character of
\* the deleted Script.
C7_ImagesReclaimed ==
    [][(Applied("deleteScript") /\ lastOp'.hit) =>
        LET owners == {c.id : c \in {x \in Range(loadCharacters(ls)) : x.scriptId = lastOp'.id}}
                      \cup {n.id : n \in {x \in Range(loadScenes(ls)) : x.scriptId = lastOp'.id}}
        IN  /\ \A k \in DOMAIN images' : images'[k].owner \notin owners
            /\ \A k \in DOMAIN characterImages' : characterImages'[k].owner \notin owners]_vars

\* C8: save(collection, X) followed by load(collection) gives X, for each of
\* the three collections, and a collection never saved loads as the empty array.
C8_RoundTrip ==
    /\ lastOp.op = "saveScripts" => loadScripts(ls) = lastOp.data
    /\ lastOp.op = "saveCharacters" => loadCharacters(ls) = lastOp.data
    /\ lastOp.op = "saveScenes" => loadScenes(ls) = lastOp.data
    /\ (STORAGE_PREFIX \o "scripts") \notin DOMAIN ls => loadScripts(ls) = <<>>
    /\ (STORAGE_PREFIX \o "characters") \notin DOMAIN ls => loadCharacters(ls) = <<>>
    /\ (STORAGE_PREFIX \o "scenes") \notin DOMAIN ls => loadScenes(ls) = <<>>

\* A collection with set and unset optional fields was saved and loads back.
C8_Witness ==
    /\ lastOp.op = "saveScenes"
    /\ Len(lastOp.data) = 3
    /\ \E i \in DOMAIN lastOp.data : lastOp.data[i].selectedImage = Undefined
    /\ \E i \in DOMAIN lastOp.data : lastOp.data[i].selectedImage # Undefined
    /\ loadScenes(ls) = lastOp.data

\* What update must do to one collection: pre and post are its loaded arrays.
UpdateFrame(pre, post, id, updates, now) ==
    /\ Len(post) = Len(pre)
    /\ \A i \in DOMAIN pre :
        IF pre[i].id = id
        THEN /\ DOMAIN post[i] = DOMAIN pre[i]
             /\ post[i].updatedAt = now
             /\ \A f \in (DOMAIN pre[i]) \ {"updatedAt"} :
                    post[i][f] = IF f \in DOMAIN updates THEN updates[f] ELSE pre[i][f]
        ELSE post[i] = pre[i]

\* C9: update with an id of the collection merges the patch over the matching
\* record and refreshes updatedAt, every other record and the order are kept;
\* with an id of no record the store is left as it was.
C9_UpdateFrame ==
    [][/\ Applied("updateScript") =>
            IF lastOp'.hit
            THEN /\ UpdateFrame(loadScripts(ls), loadScripts(ls'), lastOp'.id,
                                lastOp'.updates, clock)
                 /\ loadCharacters(ls') = loadCharacters(ls)
                 /\ loadScenes(ls') = loadScenes(ls)
            ELSE ls' = ls
       /\ Applied("updateCharacter") =>
            IF lastOp'.hit
            THEN /\ UpdateFrame(loadCharacters(ls), loadCharacters(ls'), lastOp'.id,
                                lastOp'.updates, clock)
                 /\ loadScripts(ls') = loadScripts(ls)
                 /\ loadScenes(ls') = loadScenes(ls)
            ELSE ls' = ls
       /\ Applied("updateScene") =>
            IF lastOp'.hit
            THEN /\ UpdateFrame(loadScenes(ls), loadScenes(ls'), lastOp'.id,
                                lastOp'.updates, clock)
                 /\ loadScripts(ls') = loadScripts(ls)
                 /\ loadCharacters(ls') = loadCharacters(ls)
            ELSE ls' = ls]_vars

\* A Scene among three was updated at a later time than it was created.
C9_Witness ==
    /\ lastOp.op = "updateScene"
    /\ lastOp.hit
    /\ Len(loadScenes(ls)) = 3
    /\ \E i \in DOMAIN loadScenes(ls) :
        /\ loadScenes(ls)[i].id = lastOp.id
        /\ loadScenes(ls)[i].updatedAt = clock
        /\ loadScenes(ls)[i].status = "generating"

(***************************************************************************)
(* src/pages/Characters.tsx: the Characters tab of the Script "s1".  Every *)
(* handler closes over the Character it was rendered with; what follows an *)
(* await runs later, as a step of its own, with that same Character.  The  *)
(* display cache of image payloads (imageCache) is not modelled.           *)
(***************************************************************************)
IMAGES_PER_CHARACTER == 3
MaxReferenceImages == 8
AllFailedMessage == "all image generations failed"

\* loadCharacters(): setCharacters(getCharactersByScript(scriptId))
RenderedCharacters(store) == getCharactersByScript(store, "s1")

\* imageId.startsWith('data:')
IsInline(imageId) == imageId \in InlinePayloads

\* A handler in flight: what it does, the await it is at, the Character it
\* was called with, and its locals; queue holds the Characters handleGenerateAll
\* has still to take up after this one.
NewTask(kind, pc, character) ==
    [kind |-> kind, pc |-> pc, character |-> character, index |-> 0, files |-> 0,
     i |-> 0, newImageIds |-> <<>>, now |-> 0, queue |-> <<>>]

\* History: the handler that ran last, on which Character, with what counts.
Did(op, id, before) ==
    lastOp' = [NoOp EXCEPT !.op = op, !.id = id, !.before = before]

\* handleImageUpload, reader.onload: the updates written after the save
UploadUpdates(character, imageId) ==
    Spread([referenceImages |-> Append(character.referenceImages, imageId)],
           IF ~Truthy(character.selectedImage)
           THEN [selectedImage |-> Some(imageId)]
           ELSE NoPatch)

\* handleRemoveImage: the updates written after the delete
RemoveUpdates(character, index) ==
    LET imageId == character.referenceImages[index + 1]
        newImages == RemoveAt(character.referenceImages, index)
    IN  Spread([referenceImages |-> newImages],
               IF character.selectedImage = Some(imageId)
               THEN [selectedImage |->
                        IF Len(newImages) > 0 /\ newImages[1] # ""
                        THEN Some(newImages[1]) ELSE Undefined]
               ELSE NoPatch)

\* handleGenerateCharacterImages without the slice(0, 8)
GenerateUpdates_NoSlice(character, newImageIds) ==
    Spread([referenceImages |-> character.referenceImages \o newImageIds],
           IF ~Truthy(character.selectedImage)
           THEN [selectedImage |-> Some(newImageIds[1])]
           ELSE NoPatch)
\* handleGenerateCharacterImages: the updates written when an attempt succeeded
GenerateUpdates(character, newImageIds) ==
    Spread([referenceImages |->
                SliceTo(character.referenceImages \o newImageIds, MaxReferenceImages)],
           IF ~Truthy(character.selectedImage)
           THEN [selectedImage |-> Some(newImageIds[1])]
           ELSE NoPatch)

\* handleUpdateCharacter: updateCharacter, loadCharacters, onUpdate
HandleUpdateCharacter(id, updates) ==
    /\ ls' = updateCharacter(ls, id, updates, clock)
    /\ charView' = RenderedCharacters(ls')

\* The list left by an upload that was in flight while the only image, the
\* selected one, was removed: handleRemoveImage cleared the selection and
\* the upload, started with the selection set, wrote its list without one.
UnselectedReferenceImages ==
    <<"data:image/png;base64,AAAA", CharacterImageId("c1", 1, 0)>>

\* The reference images a Character can have when the tab is opened.
InitialReferenceImages ==
    { <<>>,
      <<"data:image/png;base64,AAAA">>,
      [i \in 1..2 |-> CharacterImageId("c1", i - 1, 0)],
      [i \in 1..7 |-> CharacterImageId("c1", i - 1, 0)],
      UnselectedReferenceImages }

\* The selection stored with them: the first image, as the upload and the
\* generation of a first image leave it, or none.
InitialSelection(refs) ==
    IF refs = <<>> \/ refs = UnselectedReferenceImages THEN Undefined ELSE Some(refs[1])

\* The tab as it is opened on two Characters with the given reference images.
CharStart(refs, others) ==
    /\ LET characters ==
                <<Character("c1", "s1", "Anna", refs, InitialSelection(refs), 0),
                  Character("c2", "s1", "Bob", others, InitialSelection(others), 0)>>
        IN  /\ ls = StoreOf(<<Script("s1", "ready", Undefined, 0)>>, characters, <<>>)
            /\ characterImages = CharacterImagesOf(characters)
    /\ images = EmptyStore
    /\ clock = 1
    /\ lastOp = NoOp
    /\ steps = 0
    /\ PromptIdle
    /\ charView = RenderedCharacters(ls)
    /\ charGenerating = Undefined
    /\ charError = ""
    /\ charTasks = <<>>
    /\ SceneIdle
    /\ SeedIdle
    /\ RefIdle

CharInit == \E refs \in InitialReferenceImages : CharStart(refs, <<>>)

\* A click or a file choice of the user; MaxClicks bounds how many there are.
Click ==
    /\ steps < MaxClicks
    /\ steps' = steps + 1

\* handleImageUpload up to the reads it starts: one FileReader per kept file
HandleImageUpload ==
    \E j \in DOMAIN charView, k \in 1..MaxFiles :
        LET character == charView[j]
            remainingSlots == MaxReferenceImages - Len(character.referenceImages)
            filesToProcess == SliceTo([f \in 1..k |-> f], remainingSlots)
        IN  /\ Click
            /\ Len(character.referenceImages) < MaxReferenceImages
            /\ Len(charTasks) + Len(filesToProcess) <= MaxTasks
            /\ charTasks' = charTasks \o
                   [f \in DOMAIN filesToProcess |->
                       [NewTask("upload", "read", character) EXCEPT !.files = k]]
            /\ Did("upload", character.id,
                   <<Len(character.referenceImages), k, Len(filesToProcess)>>)
            /\ UNCHANGED <<storeVars, promptVars, sceneVars, seedVars, refVars, charView, charGenerating, charError>>

\* reader.onload up to its await: saveCharacterImage takes its id from the time
ReaderOnload ==
    \E t \in DOMAIN charTasks :
        /\ charTasks[t].kind = "upload" /\ charTasks[t].pc = "read"
        /\ charTasks' = [charTasks EXCEPT ![t].pc = "save", ![t].now = clock]
        /\ Did("onload", charTasks[t].character.id, <<0, 0, 0>>)
        /\ UNCHANGED <<storeVars, steps, promptVars, sceneVars, seedVars, refVars, charView, charGenerating, charError>>

\* reader.onload from the saved image on: the record is written from the
\* Character the upload was started with
UploadSaved ==
    \E t \in DOMAIN charTasks :
        LET task == charTasks[t]
            character == task.character
            imageIndex == Len(character.referenceImages)
            imageId == CharacterImageId(character.id, imageIndex, task.now)
        IN  /\ task.kind = "upload" /\ task.pc = "save"
            /\ characterImages' =
                   saveCharacterImage(characterImages, character.id, imageIndex, "png",
                                      task.now)
            /\ HandleUpdateCharacter(character.id, UploadUpdates(character, imageId))
            /\ charTasks' = RemoveAt(charTasks, t - 1)
            /\ Did("uploaded", character.id, <<imageIndex, task.files, 0>>)
            /\ UNCHANGED <<images, clock, steps, promptVars, sceneVars, seedVars, refVars, charGenerating, charError>>

\* handleRemoveImage up to its await; an inline payload has nothing to await
HandleRemoveImage ==
    \E j \in DOMAIN charView :
        \E index \in 0..(Len(charView[j].referenceImages) - 1) :
            LET character == charView[j]
                imageId == character.referenceImages[index + 1]
            IN  /\ Click
                /\ IF IsInline(imageId)
                   THEN /\ HandleUpdateCharacter(character.id,
                                                 RemoveUpdates(character, index))
                        /\ Did("removed", character.id,
                               <<Len(character.referenceImages), index, 0>>)
                        /\ UNCHANGED charTasks
                   ELSE /\ Len(charTasks) < MaxTasks
                        /\ charTasks' = Append(charTasks,
                               [NewTask("remove", "delete", character)
                                    EXCEPT !.index = index])
                        /\ Did("remove", character.id,
                               <<Len(character.referenceImages), index, 0>>)
                        /\ UNCHANGED <<ls, charView>>
                /\ UNCHANGED <<images, characterImages, clock, promptVars, sceneVars, seedVars, refVars,
                               charGenerating, charError>>

\* handleRemoveImage from the deleted image on
RemoveDeleted ==
    \E t \in DOMAIN charTasks :
        LET task == charTasks[t]
            character == task.character
        IN  /\ task.kind = "remove" /\ task.pc = "delete"
            /\ characterImages' =
                   deleteImage(characterImages, character.referenceImages[task.index + 1])
            /\ HandleUpdateCharacter(character.id, RemoveUpdates(character, task.index))
            /\ charTasks' = RemoveAt(charTasks, t - 1)
            /\ Did("removed", character.id,
                   <<Len(character.referenceImages), task.index, 0>>)
            /\ UNCHANGED <<images, clock, steps, promptVars, sceneVars, seedVars, refVars, charGenerating, charError>>

\* onSelectImage={(imageId) => onUpdate({ selectedImage: imageId })}
OnSelectImage ==
    \E j \in DOMAIN charView :
        \E imageId \in Range(charView[j].referenceImages) :
            /\ Click
            /\ HandleUpdateCharacter(charView[j].id, [selectedImage |-> Some(imageId)])
            /\ Did("select", charView[j].id, <<0, 0, 0>>)
            /\ UNCHANGED <<images, characterImages, clock, promptVars, sceneVars, seedVars, refVars, charGenerating,
                           charError, charTasks>>

\* handleGenerateCharacterImages up to the first call of the image adapter;
\* the button is disabled while this Character is the one generating, or full
HandleGenerateCharacterImages ==
    \E j \in DOMAIN charView :
        LET character == charView[j]
        IN  /\ Click
            /\ charGenerating # Some(character.id)
            /\ Len(character.referenceImages) < MaxReferenceImages
            /\ Len(charTasks) < MaxTasks
            /\ charError' = ""
            /\ charGenerating' = Some(character.id)
            /\ charTasks' = Append(charTasks, NewTask("generate", "adapter", character))
            /\ Did("generate", character.id, <<Len(character.referenceImages), 0, 0>>)
            /\ UNCHANGED <<storeVars, promptVars, sceneVars, seedVars, refVars, charView>>

\* handleGenerateCharacterImages after its loop: the write, or the error
FinishGeneration(t, newImageIds) ==
    LET character == charTasks[t].character
    IN  /\ IF Len(newImageIds) > 0
           THEN /\ HandleUpdateCharacter(character.id,
                                         GenerateUpdates(character, newImageIds))
                /\ UNCHANGED charError
           ELSE /\ charError' = AllFailedMessage
                /\ UNCHANGED <<ls, charView>>
        /\ charGenerating' = Undefined
        /\ charTasks' =
               IF charTasks[t].queue # <<>>
               THEN [charTasks EXCEPT ![t] =
                        [NewTask("generateAll", "allDelay", character)
                             EXCEPT !.queue = charTasks[t].queue]]
               ELSE RemoveAt(charTasks, t - 1)
        /\ lastOp' = [NoOp EXCEPT !.op = "generated", !.id = character.id,
                                  !.before = <<Len(character.referenceImages),
                                               Len(newImageIds), 0>>,
                                  !.data = <<character, newImageIds>>]

\* The catch inside the loop: on to the next attempt at once, or out of the loop
AttemptFailed(t) ==
    IF charTasks[t].i < IMAGES_PER_CHARACTER - 1
    THEN /\ charTasks' = [charTasks EXCEPT ![t].i = @ + 1, ![t].pc = "adapter"]
         /\ Did("attemptFailed", charTasks[t].character.id, <<0, 0, 0>>)
         /\ UNCHANGED <<ls, charView, charGenerating, charError>>
    ELSE FinishGeneration(t, charTasks[t].newImageIds)

\* await generateSceneImage(prompt, []) settles
GenerationAdapterReturns ==
    \E t \in DOMAIN charTasks, ok \in BOOLEAN :
        /\ charTasks[t].kind = "generate" /\ charTasks[t].pc = "adapter"
        /\ IF ok
           THEN /\ charTasks' = [charTasks EXCEPT ![t].pc = "save", ![t].now = clock]
                /\ Did("adapterReturned", charTasks[t].character.id, <<0, 0, 0>>)
                /\ UNCHANGED <<ls, charView, charGenerating, charError>>
           ELSE AttemptFailed(t)
        /\ UNCHANGED <<images, characterImages, clock, steps, promptVars, sceneVars, seedVars, refVars>>

\* await saveCharacterImage(character.id, referenceImages.length + i, ...) settles
GenerationSaveReturns ==
    \E t \in DOMAIN charTasks, ok \in BOOLEAN :
        LET task == charTasks[t]
            character == task.character
            imageIndex == Len(character.referenceImages) + task.i
            newImageIds == Append(task.newImageIds,
                                  CharacterImageId(character.id, imageIndex, task.now))
        IN  /\ task.kind = "generate" /\ task.pc = "save"
            /\ IF ok
               THEN /\ characterImages' =
                           saveCharacterImage(characterImages, character.id, imageIndex,
                                              "png", task.now)
                    /\ IF task.i < IMAGES_PER_CHARACTER - 1
                       THEN /\ charTasks' = [charTasks EXCEPT ![t].pc = "delay",
                                                 ![t].newImageIds = newImageIds]
                            /\ Did("attemptSaved", character.id, <<0, 0, 0>>)
                            /\ UNCHANGED <<ls, charView, charGenerating, charError>>
                       ELSE FinishGeneration(t, newImageIds)
               ELSE /\ UNCHANGED characterImages
                    /\ AttemptFailed(t)
            /\ UNCHANGED <<images, clock, steps, promptVars, sceneVars, seedVars, refVars>>

\* setTimeout(resolve, 1500) fires: the next attempt calls the adapter
GenerationDelayElapsed ==
    \E t \in DOMAIN charTasks :
        /\ charTasks[t].kind = "generate" /\ charTasks[t].pc = "delay"
        /\ charTasks' = [charTasks EXCEPT ![t].i = @ + 1, ![t].pc = "adapter"]
        /\ Did("delayElapsed", charTasks[t].character.id, <<0, 0, 0>>)
        /\ UNCHANGED <<storeVars, steps, promptVars, sceneVars, seedVars, refVars, charView, charGenerating, charError>>

\* handleGenerateAll with the Character of its stale list in place of the
\* record read again
FreshCharacter_Stale(store, char) ==
    Some(char)
\* handleGenerateAll: getCharactersByScript(scriptId).find(c => c.id === char.id)
FreshCharacter(store, char) ==
    Find(getCharactersByScript(store, "s1"), char.id)

\* handleGenerateAll, one pass of its loop up to the next await, for the run
\* in slot t: the first of targets is read again and, if it is stored with
\* fewer than 8 images, handleGenerateCharacterImages is called with the
\* record read; it is skipped otherwise.  After the last Character the run
\* ends; error is what the page shows when the Character is skipped.
CharacterTurn(t, targets, error) ==
    LET char == targets[1]
        freshChar == FreshCharacter(ls, char)
        called == /\ freshChar # Undefined
                  /\ Len(freshChar[1].referenceImages) < MaxReferenceImages
        task == IF called
                THEN [NewTask("generate", "adapter", freshChar[1])
                          EXCEPT !.queue = Tail(targets)]
                ELSE [NewTask("generateAll", "allDelay", char)
                          EXCEPT !.queue = Tail(targets)]
    IN  /\ charError' = IF called THEN "" ELSE error
        /\ charGenerating' = IF called THEN Some(char.id) ELSE charGenerating
        /\ charTasks' =
               IF called \/ Tail(targets) # <<>>
               THEN [k \in 1..(IF t > Len(charTasks) THEN t ELSE Len(charTasks)) |->
                        IF k = t THEN task ELSE charTasks[k]]
               ELSE RemoveAt(charTasks, t - 1)
        /\ lastOp' = [NoOp EXCEPT !.op = "turn", !.id = char.id, !.hit = called]
        /\ UNCHANGED <<ls, charView>>

\* handleGenerateAll up to its first await; the button is disabled while a
\* Character is generating or every Character has 8 images
HandleGenerateAllCharacters ==
    LET targetCharacters ==
            SelectSeq(charView,
                      LAMBDA c : Len(c.referenceImages) < MaxReferenceImages)
    IN  /\ Click
        /\ charGenerating = Undefined
        /\ Len(targetCharacters) > 0
        /\ Len(charTasks) < MaxTasks
        /\ CharacterTurn(Len(charTasks) + 1, targetCharacters, "")
        /\ UNCHANGED <<storeVars, promptVars, sceneVars, seedVars, refVars>>

\* handleGenerateAll: setTimeout(resolve, 2000) fires, on to its next Character
CharacterDelayElapsed ==
    \E t \in DOMAIN charTasks :
        /\ charTasks[t].pc = "allDelay"
        /\ CharacterTurn(t, charTasks[t].queue, charError)
        /\ UNCHANGED <<storeVars, steps, promptVars, sceneVars, seedVars, refVars>>

CharNext ==
    \/ Tick
    \/ HandleImageUpload
    \/ ReaderOnload
    \/ UploadSaved
    \/ HandleRemoveImage
    \/ RemoveDeleted
    \/ OnSelectImage
    \/ HandleGenerateCharacterImages
    \/ GenerationAdapterReturns
    \/ GenerationSaveReturns
    \/ GenerationDelayElapsed

SpecChar == CharInit /\ [][CharNext]_vars

(***************************************************************************)
(* The Characters tab with its generate-all button.  Time does not pass    *)
(* here: every step runs at time 1.  The second Character has no image, or *)
(* is one image short of the cap, so that an upload during the run can     *)
(* fill it before its turn.                                                *)
(***************************************************************************)
CharRunInit ==
    \E others \in {<<>>, [i \in 1..7 |-> CharacterImageId("c2", i - 1, 0)]} :
        CharStart(<<>>, others)

CharRunNext ==
    \/ HandleGenerateAllCharacters
    \/ CharacterDelayElapsed
    \/ HandleImageUpload
    \/ ReaderOnload
    \/ UploadSaved
    \/ HandleRemoveImage
    \/ RemoveDeleted
    \/ OnSelectImage
    \/ HandleGenerateCharacterImages
    \/ GenerationAdapterReturns
    \/ GenerationSaveReturns
    \/ GenerationDelayElapsed

SpecCharRun == CharRunInit /\ [][CharRunNext]_vars

\* C1: in every reachable state a Character's selectedImage is unset or one of
\* its referenceImages, whatever the interleaving of uploads, removals,
\* selections and generations.
C1_SelectedIsReference ==
    \A i \in DOMAIN loadCharacters(ls) :
        LET c == loadCharacters(ls)[i]
        IN  c.selectedImage = Undefined \/ c.selectedImage[1] \in Range(c.referenceImages)

\* C2: a Character never has more than 8 reference images; an upload keeps
\* only the files that fit, so 3 files uploaded to a Character with 7
\* reference images start 1 read and leave it with exactly 8, and no error is
\* raised.
C2_AtMostEight ==
    /\ [](/\ \A i \in DOMAIN loadCharacters(ls) :
                Len(loadCharacters(ls)[i].referenceImages) <= MaxReferenceImages
          /\ lastOp.op = "upload" =>
                lastOp.before[3] =
                    Min(lastOp.before[2], MaxReferenceImages - lastOp.before[1])
          /\ (lastOp.op = "uploaded" /\ lastOp.before[1] = 7) =>
                Len(getCharacter(ls, lastOp.id)[1].referenceImages) = MaxReferenceImages)
    /\ [][lastOp'.op \in {"upload", "onload", "uploaded"} => charError' = charError]_vars

C2_Witness ==
    /\ lastOp.op = "uploaded"
    /\ lastOp.before = <<7, 3, 0>>
    /\ Len(getCharacter(ls, lastOp.id)[1].referenceImages) = 8
    /\ charTasks = <<>>

(***************************************************************************)
(* pages/Generate.tsx: the Generate tab of the Script "s1".  The caches of *)
(* image payloads (imageCache, charImageCache) are not modelled; what is   *)
(* kept of loadData is the views it sets and whether it awaits a read of   *)
(* the image store, which is what can make it fail.                        *)
(***************************************************************************)
IMAGES_PER_GENERATION == 3
LoadFailedMessage == "image store read failed"

\* loadData, its synchronous part: setScenes(getScenesByScript(scriptId))
RenderedScenes(store) == getScenesByScript(store, "s1")

\* loadData, its awaits: one getImage / getCharacterImage per stored image id
LoadDataReads(store) ==
    (UNION {Range(n.generatedImages) \cup
                (IF Truthy(n.selectedImage) THEN {n.selectedImage[1]} ELSE {}) :
            n \in Range(RenderedScenes(store))}
     \cup UNION {Range(c.referenceImages) : c \in Range(getCharactersByScript(store, "s1"))})
    \ InlinePayloads

\* A handleGenerateOne in flight: the await it is at, the Scene it was called
\* with, its locals, whether the component it belongs to is still mounted,
\* and the Scenes handleGenerateAll has still to pass to it after this one.
\* attempts, reported and reloadFailed are history, and so is run: the ids
\* of the Scenes handleGenerateAll set out with and of those it has passed
\* to handleGenerateOne so far.
NewSceneTask(scene, queue, mounted, reads, run) ==
    [pc |-> "load", scene |-> scene, i |-> 0, newImageIds |-> <<>>,
     queue |-> queue, mounted |-> mounted, reads |-> reads,
     attempts |-> <<>>, reported |-> FALSE, reloadFailed |-> FALSE,
     targets |-> run.targets, ran |-> run.ran]

\* The history of a handleGenerateOne that was not called by handleGenerateAll
NoRun == [targets |-> <<>>, ran |-> <<>>]

\* History: the step of the Generate page that ran last.
DidScene(op, id, hit, before, data) ==
    lastOp' = [NoOp EXCEPT !.op = op, !.id = id, !.hit = hit, !.before = before,
                           !.data = data]

\* setScenes on a component that is still mounted
SceneSetView(mounted, store) ==
    sceneView' = IF mounted THEN RenderedScenes(store) ELSE sceneView

\* handleGenerateOne selecting the last new image instead of the first
SceneDoneUpdates_LastSelected(existingImages, newImageIds) ==
    [generatedImages |-> existingImages \o newImageIds,
     selectedImage |-> Some(newImageIds[Len(newImageIds)]), status |-> "completed"]
\* handleGenerateOne without the new ids in the list it writes
SceneDoneUpdates_NotAppended(existingImages, newImageIds) ==
    [generatedImages |-> existingImages, selectedImage |-> Some(newImageIds[1]),
     status |-> "completed"]
\* handleGenerateOne with the new ids put first
SceneDoneUpdates_Prepended(existingImages, newImageIds) ==
    [generatedImages |-> newImageIds \o existingImages,
     selectedImage |-> Some(newImageIds[1]), status |-> "completed"]
\* handleGenerateOne: the updates written when an attempt succeeded
SceneDoneUpdates(existingImages, newImageIds) ==
    [generatedImages |-> existingImages \o newImageIds,
     selectedImage |-> Some(newImageIds[1]), status |-> "completed"]

\* handleGenerateOne up to its first await, for the task in slot t
StartGenerateOne(t, scene, queue, mounted, run) ==
    /\ sceneError' = IF mounted THEN "" ELSE sceneError
    /\ sceneGenerating' = IF mounted THEN Some(scene.id) ELSE sceneGenerating
    /\ ls' = updateScene(ls, scene.id, [status |-> "generating"], clock)
    /\ SceneSetView(mounted, ls')
    /\ sceneTasks' =
           [k \in 1..(IF t > Len(sceneTasks) THEN t ELSE Len(sceneTasks)) |->
               IF k = t
               THEN NewSceneTask(scene, queue, mounted, LoadDataReads(ls') # {}, run)
               ELSE sceneTasks[k]]
    /\ DidScene("generateOne", scene.id, FALSE, <<Len(scene.generatedImages), 0, 0>>, <<>>)

\* The outer catch: setError, status 'failed', and loadData awaited again
SceneCatch(t, task, message) ==
    /\ sceneError' = IF task.mounted THEN message ELSE sceneError
    /\ ls' = updateScene(ls, task.scene.id, [status |-> "failed"], clock)
    /\ SceneSetView(task.mounted, ls')
    /\ sceneTasks' = [sceneTasks EXCEPT ![t] =
           [task EXCEPT !.pc = "loadCatch", !.reported = TRUE,
                        !.reads = LoadDataReads(ls') # {}]]
    /\ UNCHANGED sceneGenerating
    /\ DidScene("sceneFailed", task.scene.id, FALSE, <<Len(task.newImageIds), 0, 0>>,
                task.attempts)

\* After the loop: the Scene is read again and written, then loadData is
\* awaited; with no new image the error is thrown
SceneAfterLoop(t, task) ==
    IF Len(task.newImageIds) > 0
    THEN LET currentScene == Find(RenderedScenes(ls), task.scene.id)
             existingImages == IF currentScene = Undefined THEN <<>>
                               ELSE currentScene[1].generatedImages
         IN  /\ ls' = updateScene(ls, task.scene.id,
                                  SceneDoneUpdates(existingImages, task.newImageIds),
                                  clock)
             /\ SceneSetView(task.mounted, ls')
             /\ sceneTasks' = [sceneTasks EXCEPT ![t] =
                    [task EXCEPT !.pc = "reload", !.reads = LoadDataReads(ls') # {}]]
             /\ UNCHANGED <<sceneError, sceneGenerating>>
             /\ DidScene("sceneWritten", task.scene.id, currentScene # Undefined,
                         <<Len(existingImages), Len(task.newImageIds), 0>>,
                         task.attempts)
    ELSE SceneCatch(t, task, AllFailedMessage)

\* The catch inside the loop: on to the next attempt at once, or out of the loop
SceneAttemptFailed(t, task) ==
    IF task.i < IMAGES_PER_GENERATION - 1
    THEN /\ sceneTasks' = [sceneTasks EXCEPT ![t] =
                [task EXCEPT !.i = @ + 1, !.pc = "attempt"]]
         /\ DidScene("attemptFailed", task.scene.id, FALSE, <<0, 0, 0>>, <<>>)
         /\ UNCHANGED <<ls, sceneView, sceneError, sceneGenerating>>
    ELSE SceneAfterLoop(t, task)

\* The finally: setGenerating(null); handleGenerateAll then waits before its
\* next Scene, if it has one
SceneFinish(t) ==
    LET task == sceneTasks[t]
    IN  /\ sceneGenerating' = IF task.mounted THEN Undefined ELSE sceneGenerating
        /\ sceneTasks' = IF task.queue # <<>>
                         THEN [sceneTasks EXCEPT ![t].pc = "allDelay"]
                         ELSE RemoveAt(sceneTasks, t - 1)
        /\ UNCHANGED <<ls, sceneView, sceneError>>
        /\ DidScene("batchDone", task.scene.id, getScene(ls, task.scene.id) # Undefined,
                    <<Len(task.newImageIds), IF task.reported THEN 1 ELSE 0,
                      IF task.reloadFailed THEN 1 ELSE 0>>,
                    task.attempts)

\* The reference images and generated images stored when the tab is opened.
SceneInit ==
    /\ \E stored \in BOOLEAN :
        LET refs == IF stored THEN <<CharacterImageId("c1", 0, 0)>> ELSE <<>>
            imgs == IF stored THEN <<SceneImageId("n1", 0, 0)>> ELSE <<>>
            characters ==
                <<Character("c1", "s1", "Anna", refs,
                            IF refs = <<>> THEN Undefined ELSE Some(refs[1]), 0)>>
            scenes ==
                <<Scene("n1", "s1", 1, <<"c1">>, imgs,
                        IF imgs = <<>> THEN Undefined ELSE Some(imgs[1]),
                        IF imgs = <<>> THEN "pending" ELSE "completed", Undefined, 0),
                  Scene("n2", "s1", 2, <<>>, <<>>, Undefined, "pending", Undefined, 0)>>
        IN  /\ ls = StoreOf(<<Script("s1", "ready", Undefined, 0)>>, characters, scenes)
            /\ characterImages = CharacterImagesOf(characters)
            /\ images = SceneImagesOf(scenes)
    /\ clock = 1
    /\ lastOp = NoOp
    /\ steps = 0
    /\ PromptIdle
    /\ CharIdle
    /\ SeedIdle
    /\ RefIdle
    /\ sceneView = RenderedScenes(ls)
    /\ sceneGenerating = Undefined
    /\ sceneError = ""
    /\ sceneTasks = <<>>

\* onGenerate={() => handleGenerateOne(scene)}; the button of the Scene that
\* is generating is disabled
HandleGenerateOne ==
    \E j \in DOMAIN sceneView :
        /\ Click
        /\ sceneGenerating # Some(sceneView[j].id)
        /\ Len(sceneTasks) < MaxTasks
        /\ StartGenerateOne(Len(sceneTasks) + 1, sceneView[j], <<>>, TRUE, NoRun)
        /\ UNCHANGED <<images, characterImages, clock, promptVars, charVars, seedVars, refVars>>

\* handleGenerateAll without its filter
PendingScenes_Unfiltered(scenes) == scenes
\* handleGenerateAll: scenes.filter(s => s.status === 'pending' || s.status === 'failed')
PendingScenes(scenes) ==
    SelectSeq(scenes, LAMBDA n : n.status \in {"pending", "failed"})

\* handleGenerateAll up to the first await of its first handleGenerateOne;
\* the button is disabled while a Scene is generating or none is pending
HandleGenerateAll ==
    LET pendingScenes == PendingScenes(sceneView)
    IN  /\ Click
        /\ sceneGenerating = Undefined
        /\ Len(pendingScenes) > 0
        /\ Len(sceneTasks) < MaxTasks
        /\ StartGenerateOne(Len(sceneTasks) + 1, pendingScenes[1], Tail(pendingScenes), TRUE,
                            [targets |-> [k \in DOMAIN pendingScenes |-> pendingScenes[k].id],
                             ran |-> <<pendingScenes[1].id>>])
        /\ UNCHANGED <<images, characterImages, clock, promptVars, charVars, seedVars, refVars>>

\* handleGenerateAll: setTimeout(resolve, 2000) fires, on to its next Scene
GenerateAllDelayElapsed ==
    \E t \in DOMAIN sceneTasks :
        /\ sceneTasks[t].pc = "allDelay"
        /\ StartGenerateOne(t, sceneTasks[t].queue[1], Tail(sceneTasks[t].queue),
                            sceneTasks[t].mounted,
                            [targets |-> sceneTasks[t].targets,
                             ran |-> Append(sceneTasks[t].ran, sceneTasks[t].queue[1].id)])
        /\ UNCHANGED <<images, characterImages, clock, steps, promptVars, charVars, seedVars, refVars>>

\* await loadData() after the status 'generating' settles
SceneLoadSettles ==
    \E t \in DOMAIN sceneTasks, ok \in BOOLEAN :
        /\ sceneTasks[t].pc = "load"
        /\ ok \/ sceneTasks[t].reads
        /\ IF ok
           THEN /\ sceneTasks' = [sceneTasks EXCEPT ![t].pc = "attempt"]
                /\ DidScene("loaded", sceneTasks[t].scene.id, FALSE, <<0, 0, 0>>, <<>>)
                /\ UNCHANGED <<ls, sceneView, sceneError, sceneGenerating>>
           ELSE SceneCatch(t, sceneTasks[t], LoadFailedMessage)
        /\ UNCHANGED <<images, characterImages, clock, steps, promptVars, charVars, seedVars, refVars>>

\* One attempt of the loop settles: await generateSceneImage(prompt,
\* referenceImages), then await saveImage(scene.id, scene.generatedImages.length
\* + i, imageData); a rejection of either is caught inside the loop
SceneAttemptSettles ==
    \E t \in DOMAIN sceneTasks, ok \in BOOLEAN :
        LET task == sceneTasks[t]
            imageIndex == Len(task.scene.generatedImages) + task.i
            imageId == SceneImageId(task.scene.id, imageIndex, clock)
            saved == [task EXCEPT !.newImageIds = Append(@, imageId),
                                  !.attempts = Append(@, imageId)]
        IN  /\ task.pc = "attempt"
            /\ IF ok
               THEN /\ images' = saveImage(images, task.scene.id, imageIndex, "png", clock)
                    /\ IF task.i < IMAGES_PER_GENERATION - 1
                       THEN /\ sceneTasks' = [sceneTasks EXCEPT ![t] =
                                   [saved EXCEPT !.pc = "delay"]]
                            /\ DidScene("attemptSaved", task.scene.id, FALSE, <<0, 0, 0>>,
                                        <<>>)
                            /\ UNCHANGED <<ls, sceneView, sceneError, sceneGenerating>>
                       ELSE SceneAfterLoop(t, saved)
               ELSE /\ UNCHANGED images
                    /\ SceneAttemptFailed(t, [task EXCEPT !.attempts = Append(@, "")])
            /\ UNCHANGED <<characterImages, clock, steps, promptVars, charVars, seedVars, refVars>>

\* setTimeout(resolve, 1500) fires: the next attempt calls the adapter
SceneDelayElapsed ==
    \E t \in DOMAIN sceneTasks :
        /\ sceneTasks[t].pc = "delay"
        /\ sceneTasks' = [sceneTasks EXCEPT ![t].i = @ + 1, ![t].pc = "attempt"]
        /\ DidScene("delayElapsed", sceneTasks[t].scene.id, FALSE, <<0, 0, 0>>, <<>>)
        /\ UNCHANGED <<storeVars, steps, promptVars, charVars, seedVars, refVars, sceneView, sceneError,
                       sceneGenerating>>

\* await loadData() after the Scene was written settles: onUpdate and the
\* finally, or the outer catch
SceneReloadSettles ==
    \E t \in DOMAIN sceneTasks, ok \in BOOLEAN :
        /\ sceneTasks[t].pc = "reload"
        /\ ok \/ sceneTasks[t].reads
        /\ IF ok
           THEN SceneFinish(t)
           ELSE SceneCatch(t, [sceneTasks[t] EXCEPT !.reloadFailed = TRUE],
                           LoadFailedMessage)
        /\ UNCHANGED <<images, characterImages, clock, steps, promptVars, charVars, seedVars, refVars>>

\* await loadData() inside the outer catch settles, either way: the finally
SceneCatchLoadSettles ==
    \E t \in DOMAIN sceneTasks :
        /\ sceneTasks[t].pc = "loadCatch"
        /\ SceneFinish(t)
        /\ UNCHANGED <<images, characterImages, clock, steps, promptVars, charVars, seedVars, refVars>>

\* handleSelectImage: updateScene, then loadData (not awaited)
HandleSelectImage ==
    \E j \in DOMAIN sceneView :
        \E imageId \in Range(sceneView[j].generatedImages) :
            /\ Click
            /\ ls' = updateScene(ls, sceneView[j].id, [selectedImage |-> Some(imageId)],
                                 clock)
            /\ sceneView' = RenderedScenes(ls')
            /\ DidScene("selectImage", sceneView[j].id, TRUE, <<0, 0, 0>>, <<>>)
            /\ UNCHANGED <<images, characterImages, clock, promptVars, charVars, seedVars, refVars,
                           sceneGenerating, sceneError, sceneTasks>>

\* ScriptDetail.tsx, handleReanalyze from the settled analysis on: the
\* Characters and Scenes of the Script are replaced by new ones.  It is run
\* from the overview tab; the Generate tab is then opened again, as a new
\* component, while the handlers of the old one run on.
HandleReanalyze ==
    LET characterId == Fresh(CharacterIdPool, loadCharacters(ls))
        sceneId == Fresh(SceneIdPool, loadScenes(ls))
        newCharacters == <<Character(characterId, "s1", "Anna", <<>>, Undefined, clock)>>
        newScenes == <<Scene(sceneId, "s1", 1, <<characterId>>, <<>>, Undefined,
                             "pending", Undefined, clock)>>
    IN  /\ Click
        /\ HasFresh(CharacterIdPool, loadCharacters(ls))
        /\ HasFresh(SceneIdPool, loadScenes(ls))
        /\ ls' = updateScript(saveAnalysisResult(ls, "s1", newCharacters, newScenes),
                              "s1", [status |-> "ready", styleGuide |-> Some("noir")],
                              clock)
        /\ sceneView' = RenderedScenes(ls')
        /\ sceneGenerating' = Undefined
        /\ sceneError' = ""
        /\ sceneTasks' = [t \in DOMAIN sceneTasks |->
                             [sceneTasks[t] EXCEPT !.mounted = FALSE]]
        /\ DidScene("reanalyze", "s1", TRUE, <<0, 0, 0>>, <<>>)
        /\ UNCHANGED <<images, characterImages, clock, promptVars, charVars, seedVars, refVars>>

\* Time does not pass here: every step runs at time 1, so image ids that
\* differ only in their time coincide.
SceneNext ==
    \/ HandleGenerateOne
    \/ HandleGenerateAll
    \/ GenerateAllDelayElapsed
    \/ SceneLoadSettles
    \/ SceneAttemptSettles
    \/ SceneDelayElapsed
    \/ SceneReloadSettles
    \/ SceneCatchLoadSettles
    \/ HandleSelectImage
    \/ HandleReanalyze

SpecScene == SceneInit /\ [][SceneNext]_vars

\* The ids of the attempts that produced an image, in attempt order.
Successful(attempts) ==
    LET Produced(a) == a # ""
    IN  SelectSeq(attempts, Produced)

\* C3: when a handleGenerateOne finishes, the stored status of its Scene is
\* 'completed' if at least one attempt produced an image, and 'failed' with
\* an error reported if none did, whatever failed inside the batch.
C3_StatusMatchesOutcome ==
    (lastOp.op = "batchDone" /\ lastOp.hit) =>
        LET scene == getScene(ls, lastOp.id)[1]
        IN  IF Len(Successful(lastOp.data)) > 0
            THEN scene.status = "completed"
            ELSE scene.status = "failed" /\ lastOp.before[2] = 1

\* C4: the write that ends a batch appends to the generatedImages found in
\* the record exactly the ids of the successful attempts, in attempt order;
\* every one of the N attempts was made, whichever failed; the status
\* written is 'completed'.
C4_AppendsSuccessesInOrder ==
    [][(lastOp'.op = "sceneWritten" /\ lastOp' # lastOp /\ lastOp'.hit) =>
        LET before == getScene(ls, lastOp'.id)[1]
            after == getScene(ls', lastOp'.id)[1]
        IN  /\ Len(lastOp'.data) = IMAGES_PER_GENERATION
            /\ after.generatedImages = before.generatedImages \o Successful(lastOp'.data)
            /\ after.status = "completed"]_vars

C4_Witness ==
    /\ lastOp.op = "sceneWritten"
    /\ lastOp.hit
    /\ lastOp.before = <<1, 2, 0>>
    /\ lastOp.data[2] = ""
    /\ lastOp.data[1] # "" /\ lastOp.data[3] # ""
    /\ getScene(ls, lastOp.id)[1].generatedImages =
           <<SceneImageId("n1", 0, 0), lastOp.data[1], lastOp.data[3]>>
    /\ getScene(ls, lastOp.id)[1].status = "completed"

\* C5: in every reachable state a Scene's selectedImage is unset or one of
\* its generatedImages, whatever the interleaving of batches, selections and
\* re-analysis.
C5_SelectedIsGenerated ==
    \A i \in DOMAIN loadScenes(ls) :
        LET n == loadScenes(ls)[i]
        IN  n.selectedImage = Undefined \/ n.selectedImage[1] \in Range(n.generatedImages)

C5_Witness ==
    /\ lastOp.op = "selectImage"
    /\ \E i \in DOMAIN loadScenes(ls) :
        LET n == loadScenes(ls)[i]
        IN  /\ n.id = lastOp.id
            /\ Len(n.generatedImages) >= 2
            /\ n.selectedImage = Some(n.generatedImages[2])

(***************************************************************************)
(* src/pages/ScriptNew.tsx (handleSubmit) and src/pages/ScriptDetail.tsx   *)
(* (handleReanalyze): the Characters and Scenes of a Script are seeded     *)
(* from the result of analyzeScript.  Of an analysis result the model      *)
(* keeps the names of the characters, and of each scene its number and its *)
(* characterNames.                                                         *)
(***************************************************************************)
\* What JSON.parse returns for the answers of the model that name characters
\* and scenes.
SampleAnalysisResults ==
    { [characters |-> <<"Anna", "Bob">>,
       scenes |-> <<[sceneNumber |-> 1, characterNames |-> <<"Anna", "Bob">>],
                    [sceneNumber |-> 2, characterNames |-> <<"Bob">>]>>],
      [characters |-> <<"Anna">>,
       scenes |-> <<[sceneNumber |-> 1, characterNames |-> <<"Bob">>]>>],
      [characters |-> <<"Anna">>,
       scenes |-> <<[sceneNumber |-> 1, characterNames |-> <<"anna", "Anna">>]>>],
      [characters |-> <<"Anna", "Anna">>,
       scenes |-> <<[sceneNumber |-> 1, characterNames |-> <<"Anna">>]>>],
      [characters |-> <<"Anna">>,
       scenes |-> <<[sceneNumber |-> 1, characterNames |-> <<"Anna", "Anna">>]>>],
      [characters |-> <<>>, scenes |-> <<>>] }

\* How analyzeScript or the mapping of its result can fail: the adapter
\* rejects, JSON.parse throws, or the parsed object lacks an array that is
\* mapped.
AnalysisFailures == {"adapter error", "unparsable response", "incomplete response"}

\* n calls of uuidv4(): identifiers no record of the collection carries
FreshIds(pool, records, n) ==
    LET Unused(id) == id \notin IdsOf(records)
    IN  SubSeq(SelectSeq(pool, Unused), 1, n)
HasFreshIds(pool, records, n) ==
    LET Unused(id) == id \notin IdsOf(records)
    IN  Len(SelectSeq(pool, Unused)) >= n

\* result.characters.map((c) => ({ id: uuidv4(), scriptId, name: c.name, ... }))
SeedCharacters(result, scriptId, ids, now) ==
    [i \in DOMAIN result.characters |->
        Character(ids[i], scriptId, result.characters[i], <<>>, Undefined, now)]

\* new Map(characters.map((c) => [c.name, c.id])).get(name): a later entry of
\* the same key replaces the earlier one
CharNameToId(characters, name) ==
    LET named == {i \in DOMAIN characters : characters[i].name = name}
    IN  IF named = {} THEN Undefined
        ELSE Some(characters[CHOOSE i \in named : \A j \in named : j <= i].id)

\* s.characterNames.map((name) => charNameToId.get(name)).filter((id) => !!id)
SeedCharacterIds(characters, characterNames) ==
    LET Found(name) == Truthy(CharNameToId(characters, name))
        found == SelectSeq(characterNames, Found)
    IN  [k \in DOMAIN found |-> CharNameToId(characters, found[k])[1]]

\* result.scenes.map((s) => ({ id: uuidv4(), scriptId, characterIds, ... }))
SeedScenes(result, scriptId, characters, ids, now) ==
    [i \in DOMAIN result.scenes |->
        Scene(ids[i], scriptId, result.scenes[i].sceneNumber,
              SeedCharacterIds(characters, result.scenes[i].characterNames),
              <<>>, Undefined, "pending", Undefined, now)]

\* saveAnalysisResult, then updateScript(scriptId, { status: 'ready', styleGuide })
SeedStore(store, result, scriptId, now, stamp) ==
    LET characters ==
            SeedCharacters(result, scriptId,
                FreshIds(CharacterIdPool, loadCharacters(store), Len(result.characters)),
                now)
        scenes ==
            SeedScenes(result, scriptId, characters,
                FreshIds(SceneIdPool, loadScenes(store), Len(result.scenes)), now)
    IN  updateScript(saveAnalysisResult(store, scriptId, characters, scenes), scriptId,
                     [status |-> "ready", styleGuide |-> Some("noir")], stamp)

\* History: the step of an analysis that ran last.
DidSeed(op, id, hit, data) ==
    lastOp' = [NoOp EXCEPT !.op = op, !.id = id, !.hit = hit, !.data = data]

\* The stores an analysis can start from: nothing stored, or a Script that
\* was analysed before.
SeedInit ==
    /\ ls \in { EmptyStore,
                StoreOf(<<Script("s1", "ready", Some("noir"), 0)>>,
                        <<Character("c1", "s1", "Anna", <<>>, Undefined, 0)>>,
                        <<Scene("n1", "s1", 1, <<"c1">>, <<>>, Undefined, "pending",
                                Undefined, 0)>>) }
    /\ images = EmptyStore
    /\ characterImages = EmptyStore
    /\ clock = 1
    /\ lastOp = NoOp
    /\ steps = 0
    /\ PromptIdle
    /\ CharIdle
    /\ SceneIdle
    /\ SeedIdle
    /\ RefIdle

\* The catch of handleSubmit without the roll-back
SubmitFailedUpdates_StillAnalyzing == [status |-> "analyzing"]
\* The catch of handleSubmit: updateScript(scriptId, { status: 'draft' })
SubmitFailedUpdates == [status |-> "draft"]

\* handleSubmit up to await analyzeScript(rawContent); an empty title or
\* content is reported and nothing is stored
HandleSubmit ==
    \E scriptId \in ScriptIds \ IdsOf(loadScripts(ls)), title \in {"", "T"} :
        /\ Click
        /\ IF title = ""
           THEN /\ seedError' = "title required"
                /\ DidSeed("rejected", scriptId, FALSE, <<>>)
                /\ UNCHANGED <<ls, seedTasks>>
           ELSE /\ Len(seedTasks) < MaxTasks
                /\ seedError' = ""
                /\ ls' = addScript(ls, Script(scriptId, "analyzing", Undefined, clock))
                /\ seedTasks' = Append(seedTasks,
                       [kind |-> "submit", scriptId |-> scriptId, now |-> clock])
                /\ DidSeed("submit", scriptId, TRUE, <<>>)
        /\ UNCHANGED <<images, characterImages, clock, promptVars, charVars, sceneVars,
                       refVars>>

\* handleReanalyze up to await analyzeScript(script.rawContent); the button
\* is disabled while the analysis it started is in flight
StartReanalyze ==
    \E i \in DOMAIN loadScripts(ls) :
        LET scriptId == loadScripts(ls)[i].id
        IN  /\ Click
            /\ Len(seedTasks) < MaxTasks
            /\ \A t \in DOMAIN seedTasks :
                   ~(seedTasks[t].kind = "reanalyze" /\ seedTasks[t].scriptId = scriptId)
            /\ seedError' = ""
            /\ seedTasks' = Append(seedTasks,
                   [kind |-> "reanalyze", scriptId |-> scriptId, now |-> 0])
            /\ DidSeed("reanalyze", scriptId, FALSE, <<>>)
            /\ UNCHANGED <<storeVars, promptVars, charVars, sceneVars, refVars>>

\* await analyzeScript settles with a result; handleSubmit stamps the records
\* with the time of the submit, handleReanalyze with the time of the result
AnalysisReturns ==
    \E t \in DOMAIN seedTasks, result \in SampleAnalysisResults :
        LET task == seedTasks[t]
            now == IF task.kind = "submit" THEN task.now ELSE clock
        IN  /\ HasFreshIds(CharacterIdPool, loadCharacters(ls), Len(result.characters))
            /\ HasFreshIds(SceneIdPool, loadScenes(ls), Len(result.scenes))
            /\ ls' = SeedStore(ls, result, task.scriptId, now, clock)
            /\ seedTasks' = RemoveAt(seedTasks, t - 1)
            /\ DidSeed("seeded", task.scriptId, task.kind = "submit", result)
            /\ UNCHANGED <<images, characterImages, clock, steps, promptVars, charVars,
                           sceneVars, seedError, refVars>>

\* await analyzeScript rejects, or the mapping of its result throws: the catch
AnalysisFails ==
    \E t \in DOMAIN seedTasks, failure \in AnalysisFailures :
        LET task == seedTasks[t]
        IN  /\ seedError' = failure
            /\ ls' = IF task.kind = "submit"
                     THEN updateScript(ls, task.scriptId, SubmitFailedUpdates, clock)
                     ELSE ls
            /\ seedTasks' = RemoveAt(seedTasks, t - 1)
            /\ DidSeed("analysisFailed", task.scriptId, task.kind = "submit", <<>>)
            /\ UNCHANGED <<images, characterImages, clock, steps, promptVars, charVars,
                           sceneVars, refVars>>

SeedNext ==
    \/ Tick
    \/ HandleSubmit
    \/ StartReanalyze
    \/ AnalysisReturns
    \/ AnalysisFails

SpecSeed == SeedInit /\ [][SeedNext]_vars

\* The Characters and the Scenes of the Script of the last operation.
SeededCharacters == SelectSeq(loadCharacters(ls), LAMBDA c : c.scriptId = lastOp.id)
SeededScenes == SelectSeq(loadScenes(ls), LAMBDA s : s.scriptId = lastOp.id)

\* C11: after an analysis has seeded a Script, the characterIds of every
\* seeded Scene are exactly the ids of the Script's newly created Characters
\* whose name equals, case-sensitively, an entry of the Scene's
\* characterNames in the analysis result; a name that matches no Character
\* contributes nothing.
C11_SeededCharacterIds ==
    lastOp.op = "seeded" =>
        /\ Len(SeededScenes) = Len(lastOp.data.scenes)
        /\ \A k \in DOMAIN SeededScenes :
               Range(SeededScenes[k].characterIds) =
                   { SeededCharacters[j].id : j \in
                       { j \in DOMAIN SeededCharacters :
                           SeededCharacters[j].name \in
                               Range(lastOp.data.scenes[k].characterNames) } }

\* The status of a stored Script.
StatusOf(store, scriptId) == getScript(store, scriptId)[1].status

\* C14: when an analysis fails, the error is reported, no Character or Scene
\* record is added, removed or changed, and the Script's status is rolled
\* back to its value before the analysis: 'draft' for a new Script, so that
\* it does not remain 'analyzing', and the unchanged status for a re-analysis.
C14_FailedAnalysisRollsBack ==
    [][(lastOp'.op = "analysisFailed" /\ Len(seedTasks') < Len(seedTasks)) =>
          /\ seedError' \in AnalysisFailures
          /\ loadCharacters(ls') = loadCharacters(ls)
          /\ loadScenes(ls') = loadScenes(ls)
          /\ IdsOf(loadScripts(ls')) = IdsOf(loadScripts(ls))
          /\ \A i \in DOMAIN loadScripts(ls) :
                 LET id == loadScripts(ls)[i].id
                 IN  IF id = lastOp'.id /\ lastOp'.hit
                     THEN StatusOf(ls', id) = "draft"
                     ELSE StatusOf(ls', id) = StatusOf(ls, id)]_vars

\* A submit whose analysis failed: the new Script is back to 'draft'.
C14_Witness ==
    /\ lastOp.op = "analysisFailed"
    /\ lastOp.hit
    /\ seedError = "unparsable response"
    /\ StatusOf(ls, lastOp.id) = "draft"
    /\ Len(loadCharacters(ls)) > 0

(***************************************************************************)
(* Generate page, handleGenerateOne: the reference images collected for    *)
(* the Characters of a Scene, and what generateSceneImage forwards.        *)
(* refCharacters is getSceneCharacters(scene), refCache is charImageCache  *)
(* (image id to payload), refOut the list handed to the adapter.           *)
(***************************************************************************)
MaxCollectedImages == 8
MaxForwardedImages == 8

\* charImageCache[imageId] || (imageId.startsWith('data:') ? imageId : null)
RefPayload(cache, imageId) ==
    IF imageId \in DOMAIN cache THEN Some(cache[imageId])
    ELSE IF IsInline(imageId) THEN Some(imageId)
    ELSE Undefined

\* if (... && referenceImages.length < 8) { if (imageData) push(imageData) }
PushReference(out, cache, imageId) ==
    IF Len(out) < MaxCollectedImages /\ IsSet(RefPayload(cache, imageId))
    THEN Append(out, RefPayload(cache, imageId)[1])
    ELSE out

\* for (const imageId of char.referenceImages), from the k-th entry on
RECURSIVE CollectOthers(_, _, _, _)
CollectOthers(out, cache, char, k) ==
    IF k > Len(char.referenceImages) THEN out
    ELSE CollectOthers(
             IF Some(char.referenceImages[k]) # char.selectedImage
             THEN PushReference(out, cache, char.referenceImages[k])
             ELSE out,
             cache, char, k + 1)

\* The body of the loop with the selected image treated as any other image
CollectCharacter_InListOrder(out, cache, char) ==
    CollectOthers(out, cache, [char EXCEPT !.selectedImage = Undefined], 1)
\* The body of for (const char of sceneCharacters)
CollectCharacter(out, cache, char) ==
    CollectOthers(IF IsSet(char.selectedImage)
                  THEN PushReference(out, cache, char.selectedImage[1])
                  ELSE out,
                  cache, char, 1)

\* for (const char of sceneCharacters), from the k-th Character on
RECURSIVE CollectReferenceImages(_, _, _, _)
CollectReferenceImages(out, cache, characters, k) ==
    IF k > Len(characters) THEN out
    ELSE CollectReferenceImages(CollectCharacter(out, cache, characters[k]),
                                cache, characters, k + 1)

\* generateSceneImage: for (const img of referenceImages.slice(0, 8))
ForwardedImages(referenceImages) == SliceTo(referenceImages, MaxForwardedImages)

\* The Characters a Scene can name: no image, one image, five images, an
\* inline payload; nothing selected, an image of the list, an image that is
\* not in the list.  A Scene names a Character twice when its characterNames
\* held the name twice.
RefCharacterOptions(c) ==
    { [referenceImages |-> refs, selectedImage |-> sel] :
        refs \in { <<>>, <<c \o "1">>,
                   <<c \o "1", c \o "2", c \o "3", c \o "4", c \o "5">>,
                   <<"data:image/png;base64,AAAA", c \o "1">> },
        sel \in { Undefined, Some(c \o "1"), Some(c \o "3"),
                  Some("data:image/png;base64,AAAA") } }

RefImageIds == {c \o n : c \in {"a", "b"}, n \in {"1", "2", "3", "4", "5"}}

\* charImageCache: every image loaded, none, or some missing
RefCaches ==
    { [id \in ids |-> "png:" \o id] :
        ids \in { RefImageIds, {}, RefImageIds \ {"a3"}, RefImageIds \ {"a1", "b1"} } }

RefInit ==
    /\ refCharacters \in
           {<<>>} \cup {<<a>> : a \in RefCharacterOptions("a")}
                  \cup {<<a, a>> : a \in RefCharacterOptions("a")}
                  \cup {<<a, b>> : a \in RefCharacterOptions("a"),
                                   b \in RefCharacterOptions("b")}
    /\ refCache = [id \in RefImageIds |-> "png:" \o id]
    /\ refOut = Undefined
    /\ ls = EmptyStore
    /\ images = EmptyStore
    /\ characterImages = EmptyStore
    /\ clock = 1
    /\ lastOp = NoOp
    /\ steps = 0
    /\ PromptIdle
    /\ CharIdle
    /\ SceneIdle
    /\ SeedIdle

\* handleGenerateOne, lines 106-127, and the adapter's slice
CollectReferences ==
    /\ refOut = Undefined
    /\ refOut' = Some(ForwardedImages(
                          CollectReferenceImages(<<>>, refCache, refCharacters, 1)))
    /\ UNCHANGED <<refCharacters, refCache, storeVars, historyVars, promptVars,
                   charVars, sceneVars, seedVars>>

\* setCharImageCache(imgCache) of a later loadData
ReloadCache ==
    /\ IsSet(refOut)
    /\ \E cache \in RefCaches :
           /\ cache # refCache
           /\ refCache' = cache
    /\ refOut' = Undefined
    /\ UNCHANGED <<refCharacters, storeVars, historyVars, promptVars, charVars,
                   sceneVars, seedVars>>

RefNext ==
    \/ CollectReferences
    \/ ReloadCache

SpecRefs == RefInit /\ [][RefNext]_vars

\* The payloads of a Character's images that can be resolved, the selected
\* image first, then the other images in the order of referenceImages.
RECURSIVE Flatten(_)
Flatten(seqs) == IF seqs = <<>> THEN <<>> ELSE Head(seqs) \o Flatten(Tail(seqs))

Resolvable(imageId) == IsSet(RefPayload(refCache, imageId))

SelectedFirst(char) ==
    LET selected == IF IsSet(char.selectedImage) /\ Resolvable(char.selectedImage[1])
                    THEN <<char.selectedImage[1]>> ELSE <<>>
        others == SelectSeq(char.referenceImages,
                      LAMBDA id : Some(id) # char.selectedImage /\ Resolvable(id))
        ids == selected \o others
    IN  [i \in DOMAIN ids |-> RefPayload(refCache, ids[i])[1]]

\* C12: the reference images forwarded to the adapter are never more than
\* 8, and they are the first 8 of: for each Character of the Scene in order,
\* its selected image, then its other reference images in list order.
C12_ForwardedReferences ==
    IsSet(refOut) =>
        /\ Len(refOut[1]) <= 8
        /\ refOut[1] = SliceTo(Flatten([k \in DOMAIN refCharacters |->
                                           SelectedFirst(refCharacters[k])]), 8)

\* Two Characters with ten images: eight are forwarded, the first of them
\* the first Character's selected image, which is third in its list.
C12_Witness ==
    /\ IsSet(refOut)
    /\ Len(refOut[1]) = 8
    /\ Len(refCharacters) = 2
    /\ refCharacters[1].selectedImage = Some("a3")
    /\ Len(refCharacters[1].referenceImages) = 5
    /\ refOut[1][1] = "png:a3"
    /\ refOut[1][2] = "png:a1"
    /\ refOut[1][6] = "png:b1"

\* The handlers of the Generate page that await generateSceneImage.
AdapterCallsInFlight == {t \in DOMAIN sceneTasks : sceneTasks[t].pc = "attempt"}

\* C13: at every moment at most one call of the image adapter is in flight.
C13_OneAdapterCall == Cardinality(AdapterCallsInFlight) <= 1

\* C15, as stated: when a batch with at least one success has completed, the
\* Scene's selectedImage is the first image the batch produced.
C15_SelectedAtCompletion ==
    (lastOp.op = "batchDone" /\ lastOp.hit /\ Len(Successful(lastOp.data)) > 0) =>
        getScene(ls, lastOp.id)[1].selectedImage = Some(Successful(lastOp.data)[1])

\* C15, amended: the write that ends a batch with at least one success sets
\* the Scene's selectedImage to the first image the batch produced, whatever
\* was selected before the batch or while its images were generated.
C15_SelectedAtWrite ==
    [][(lastOp'.op = "sceneWritten" /\ lastOp'.hit) =>
          /\ Len(Successful(lastOp'.data)) > 0
          /\ getScene(ls', lastOp'.id)[1].selectedImage =
                 Some(Successful(lastOp'.data)[1])]_vars

\* A batch whose first attempt failed has written: the image of the second
\* attempt is selected in place of the image selected before.
C15_Witness ==
    /\ lastOp.op = "sceneWritten"
    /\ lastOp.hit
    /\ lastOp.data[1] = ""
    /\ lastOp.data[2] # ""
    /\ getScene(ls, lastOp.id)[1].generatedImages[1] = SceneImageId("n1", 0, 0)
    /\ getScene(ls, lastOp.id)[1].selectedImage = Some(lastOp.data[2])

\* C16: a Character's batch with at least one success writes the list the
\* batch was started with followed by the new image ids, cut to 8; a
\* Character that had no selected image gets the first entry of the written
\* list as its selectedImage, and one that had a selected image keeps it.  A
\* batch whose attempts all failed leaves the store as it is and reports an
\* error.
C16_CharacterBatchWrite ==
    [][(lastOp'.op = "generated" /\ Len(charTasks') < Len(charTasks)) =>
          LET character == lastOp'.data[1]
              newImageIds == lastOp'.data[2]
              before == getCharacter(ls, lastOp'.id)[1]
              after == getCharacter(ls', lastOp'.id)[1]
          IN  IF Len(newImageIds) > 0
              THEN /\ after.referenceImages =
                          SliceTo(character.referenceImages \o newImageIds, 8)
                   /\ IF character.selectedImage = Undefined
                      THEN after.selectedImage = Some(after.referenceImages[1])
                      ELSE after.selectedImage = before.selectedImage
              ELSE /\ ls' = ls
                   /\ charError' = AllFailedMessage]_vars

\* C17: when generate-all goes on to its next Scene, the status stored for
\* that Scene is still 'pending' or 'failed': a Scene that another batch has
\* taken up or completed in the meantime is not generated again.
C17_GenerateAllRereadsStatus ==
    [][\A t \in DOMAIN sceneTasks :
          (/\ sceneTasks[t].pc = "allDelay"
           /\ t \in DOMAIN sceneTasks'
           /\ sceneTasks'[t].pc = "load"
           /\ getScene(ls, sceneTasks'[t].scene.id) # Undefined) =>
              getScene(ls, sceneTasks'[t].scene.id)[1].status \in {"pending", "failed"}]_vars

\* The generate-all runs in flight, and the target set of a run that starts
\* now: the stored Scenes of the Script that are 'pending' or 'failed'.
RunsInFlight == {t \in DOMAIN sceneTasks : sceneTasks[t].targets # <<>>}
TargetScenes ==
    {n \in Range(getScenesByScript(ls, "s1")) : n.status \in {"pending", "failed"}}
SceneNumberOf(store, id) == getScene(store, id)[1].sceneNumber

\* Where a handler stands, and a measure of what a run has still to do: the
\* Scenes ahead of it and the awaits left in the batch it is in.
StepOf(task) == <<task.pc, task.i, Len(task.queue)>>
WorkLeft(task) ==
    100 * Len(task.queue) +
        CASE task.pc = "load" -> 20
          [] task.pc = "attempt" -> 15 - 5 * task.i
          [] task.pc = "delay" -> 13 - 5 * task.i
          [] task.pc = "reload" -> 3
          [] task.pc = "loadCatch" -> 2
          [] task.pc = "allDelay" -> 1

C19_CharacterBatchKeepsAdded ==
    [][(/\ lastOp'.op = "generated"
        /\ Len(charTasks') < Len(charTasks)
        /\ Len(lastOp'.data[2]) > 0) =>
          LET before == getCharacter(ls, lastOp'.id)[1]
              after == getCharacter(ls', lastOp'.id)[1]
          IN  Len(before.referenceImages) + Len(lastOp'.data[2]) <= 8 =>
                  Range(before.referenceImages) \subseteq Range(after.referenceImages)]_vars

\* C20: while a batch runs for a Scene that the page shows, the button of
\* that Scene is disabled, so that no second batch can be started for it,
\* whatever batches of other Scenes have started or finished since.
C20_RunningSceneIsDisabled ==
    \A t \in DOMAIN sceneTasks :
        (/\ sceneTasks[t].mounted
         /\ sceneTasks[t].pc # "allDelay"
         /\ sceneTasks[t].scene.id \in IdsOf(sceneView)) =>
            sceneGenerating = Some(sceneTasks[t].scene.id)

\* C22: within a batch the next call of the image adapter is made only
\* after the delay that follows the call before it, whether that call
\* produced an image or failed: no handler goes from one attempt straight
\* into the next.
C22_DelayBetweenCalls ==
    [][\A t \in DOMAIN sceneTasks :
          (/\ Len(sceneTasks') = Len(sceneTasks)
           /\ sceneTasks[t].pc = "attempt"
           /\ sceneTasks'[t].pc = "attempt") =>
              sceneTasks'[t].i = sceneTasks[t].i]_vars

\* The id of the first Character of the seeded Script that has the name.
FirstNamed(name) ==
    SeededCharacters[
        CHOOSE j \in DOMAIN SeededCharacters :
            /\ SeededCharacters[j].name = name
            /\ \A i \in 1..(j - 1) : SeededCharacters[i].name # name].id

\* C23: when the analysis result names a character more than once, a seeded
\* Scene that lists the name is linked to the first Character of that name,
\* in the order of the result.
C23_FirstOfANameIsLinked ==
    lastOp.op = "seeded" =>
        \A k \in DOMAIN SeededScenes :
            \A name \in Range(lastOp.data.scenes[k].characterNames) :
                name \in Range(lastOp.data.characters) =>
                    FirstNamed(name) \in Range(SeededScenes[k].characterIds)

\* C24: the reference images collected for a batch hold no image twice.
C24_NoReferenceTwice ==
    IsSet(refOut) =>
        \A i, j \in DOMAIN refOut[1] : i # j => refOut[1][i] # refOut[1][j]

\* The status stored for a Scene, "" when the Scene is not stored.
SceneStatus(store, id) ==
    IF getScene(store, id) = Undefined THEN "" ELSE getScene(store, id)[1].status

\* The first part of C21: the step that starts a batch for a stored Scene
\* stores 'generating' for it, before the first call of the adapter.
BatchStartPersistsGenerating ==
    [][\A t \in DOMAIN sceneTasks' :
          (/\ sceneTasks'[t].pc = "load"
           /\ (t \notin DOMAIN sceneTasks \/ sceneTasks[t].pc = "allDelay")
           /\ getScene(ls, sceneTasks'[t].scene.id) # Undefined) =>
              SceneStatus(ls', sceneTasks'[t].scene.id) = "generating"]_vars

\* The second part of C21: the status stored after 'generating' is
\* 'completed' or 'failed'.
GeneratingBecomesCompletedOrFailed ==
    [][\A id \in IdsOf(loadScenes(ls)) :
          (/\ SceneStatus(ls, id) = "generating"
           /\ SceneStatus(ls', id) \notin {"generating", ""}) =>
              SceneStatus(ls', id) \in {"completed", "failed"}]_vars

\* The third part of C21: when a batch has ended, the Scene it ran for is
\* stored 'completed' or 'failed'.
EndedBatchLeftSettled ==
    (lastOp.op = "batchDone" /\ lastOp.hit) =>
        SceneStatus(ls, lastOp.id) \in {"completed", "failed"}

\* C21: a batch stores 'generating' before its first call of the adapter,
\* the status after 'generating' is 'completed' or 'failed', every step of
\* a batch leaves it less to do, and a batch that has ended leaves its Scene
\* 'completed' or 'failed', never 'generating'.
C21_StatusLifecycle ==
    /\ BatchStartPersistsGenerating
    /\ GeneratingBecomesCompletedOrFailed
    /\ [][\A t \in DOMAIN sceneTasks :
             (/\ Len(sceneTasks') = Len(sceneTasks)
              /\ StepOf(sceneTasks'[t]) # StepOf(sceneTasks[t])) =>
                 WorkLeft(sceneTasks'[t]) < WorkLeft(sceneTasks[t])]_vars
    /\ []EndedBatchLeftSettled

\* The step is the return of the saveCharacterImage that the handler in
\* slot t awaited: an upload's, or that of an attempt of a batch.
CharacterImageSaved(t) ==
    /\ charTasks[t].pc = "save"
    /\ \/ /\ charTasks[t].kind = "upload"
          /\ charTasks' = RemoveAt(charTasks, t - 1)
       \/ /\ charTasks[t].kind = "generate"
          /\ Len(charTasks') = Len(charTasks)
          /\ charTasks'[t].pc = "delay"
       \/ /\ charTasks[t].kind = "generate"
          /\ charTasks' = RemoveAt(charTasks, t - 1)
          /\ lastOp'.op = "generated"
          /\ Len(lastOp'.data[2]) > Len(charTasks[t].newImageIds)

\* C25: saveCharacterImage never overwrites a stored image: the id it
\* returns is the id of no image stored before, so every save adds a record.
C25_SavedIdIsNew ==
    [][\A t \in DOMAIN charTasks :
          CharacterImageSaved(t) =>
              DOMAIN characterImages' # DOMAIN characterImages]_vars

\* C26: no stored Character refers to an image that is missing: every entry
\* of referenceImages that is not an inline payload is the id of a record of
\* the image store, whatever handlers have run or are in flight.
C26_NoDanglingReference ==
    \A c \in Range(loadCharacters(ls)) :
        \A imageId \in Range(c.referenceImages) :
            ~IsInline(imageId) => imageId \in DOMAIN characterImages

\* C27: when the last file of an upload of k files to a Character with n
\* images has been saved, and nothing but the upload has run, the Character
\* has n + min(k, 8 - n) images: the id of every accepted file is in its list.
C27_UploadAddsEveryFile ==
    [][(/\ lastOp'.op = "uploaded"
        /\ steps = 1
        /\ Len(charTasks) = 1
        /\ charTasks' = <<>>) =>
          LET n == lastOp'.before[1]
              k == lastOp'.before[2]
              accepted == IF k < MaxReferenceImages - n THEN k
                          ELSE MaxReferenceImages - n
          IN  Len(getCharacter(ls', lastOp'.id)[1].referenceImages) = n + accepted]_vars

\* C28: a removal takes exactly the clicked entry out of the stored list,
\* keeping the order of the rest, and its image is stored no more; when the
\* removed image was the stored selection, the selection becomes the first
\* image left, or none; otherwise the selection is left as it was.
C28_RemoveExactlyClicked ==
    [][(/\ lastOp'.op = "removed"
        /\ (steps' # steps \/ Len(charTasks') < Len(charTasks))) =>
          LET before == getCharacter(ls, lastOp'.id)[1]
              after == getCharacter(ls', lastOp'.id)[1]
              index == lastOp'.before[2]
          IN  index < Len(before.referenceImages) =>
                  LET imageId == before.referenceImages[index + 1]
                  IN  /\ after.referenceImages = RemoveAt(before.referenceImages, index)
                      /\ imageId \notin DOMAIN characterImages'
                      /\ after.selectedImage =
                            IF before.selectedImage = Some(imageId)
                            THEN IF after.referenceImages = <<>> THEN Undefined
                                 ELSE Some(after.referenceImages[1])
                            ELSE before.selectedImage]_vars

\* The records of a collection that belong to the Script, and the others.
OfScript(records, scriptId) ==
    SelectSeq(records, LAMBDA r : r.scriptId = scriptId)
OfOtherScripts(records, scriptId) ==
    SelectSeq(records, LAMBDA r : r.scriptId # scriptId)

\* C29: saveAnalysisResult(S, characters, scenes) leaves as the Characters
\* and Scenes of Script S exactly the given ones, none of an earlier
\* analysis, and leaves the records of every other Script, and the Scripts,
\* stored as they were.
C29_AnalysisReplacesScriptRecords ==
    [][Applied("saveAnalysisResult") =>
          LET scriptId == lastOp'.id
              characters == lastOp'.data[1]
              scenes == lastOp'.data[2]
          IN  /\ OfScript(loadCharacters(ls'), scriptId) = characters
              /\ OfScript(loadScenes(ls'), scriptId) = scenes
              /\ OfOtherScripts(loadCharacters(ls'), scriptId) =
                     OfOtherScripts(loadCharacters(ls), scriptId)
              /\ OfOtherScripts(loadScenes(ls'), scriptId) =
                     OfOtherScripts(loadScenes(ls), scriptId)
              /\ loadScripts(ls') = loadScripts(ls)]_vars

\* Script s1, which had two of the three stored Characters and two of the
\* three stored Scenes, has been analysed again into one Character and one
\* Scene; those of Script s2 are stored with them.
C29_Witness ==
    /\ lastOp.op = "saveAnalysisResult"
    /\ lastOp.id = "s1"
    /\ lastOp.before[2] = 3
    /\ lastOp.before[3] = 3
    /\ Len(lastOp.data[1]) = 1
    /\ Len(lastOp.data[2]) = 1
    /\ Len(loadCharacters(ls)) = 2
    /\ Len(loadScenes(ls)) = 2

\* The step calls handleGenerateCharacterImages for the Character from a run
\* of generate-all: a run that starts or that was waiting is at its first
\* attempt for that Character afterwards.
CalledFromRun(id) ==
    \E t \in DOMAIN charTasks' :
        /\ charTasks'[t].kind = "generate"
        /\ charTasks'[t].pc = "adapter"
        /\ charTasks'[t].i = 0
        /\ charTasks'[t].character.id = id
        /\ \/ t \notin DOMAIN charTasks
           \/ /\ Len(charTasks') = Len(charTasks)
              /\ charTasks[t].pc = "allDelay"

\* The runs of generate-all that have Characters still to take up.
RunsWithQueue(tasks) == {t \in DOMAIN tasks : tasks[t].queue # <<>>}

\* C30: when generate-all comes to a Character, it generates for it exactly
\* when the record stored for it at that moment has fewer than 8 images, and
\* with that record; a Character that has 8 by then is skipped.  A run with
\* Characters still ahead goes on to the next of them whatever the batch
\* before produced: it gives one up only by taking it up.
C30_GenerateAllRereadsCharacter ==
    [][/\ (lastOp'.op = "turn" /\ charTasks' # charTasks) =>
             LET stored == getCharacter(ls, lastOp'.id)
             IN  /\ CalledFromRun(lastOp'.id) <=>
                        /\ stored # Undefined
                        /\ Len(stored[1].referenceImages) < MaxReferenceImages
                 /\ CalledFromRun(lastOp'.id) =>
                        \E t \in DOMAIN charTasks' :
                            /\ charTasks'[t].pc = "adapter"
                            /\ charTasks'[t].character = stored[1]
       /\ Cardinality(RunsWithQueue(charTasks')) < Cardinality(RunsWithQueue(charTasks)) =>
             lastOp'.op = "turn"
       /\ \A t \in RunsWithQueue(charTasks) :
             (Len(charTasks') = Len(charTasks) /\ lastOp'.op # "turn") =>
                 charTasks'[t].queue = charTasks[t].queue]_vars

\* Every attempt for the first Character failed; the second Character, one
\* image short of the cap when the run started, was filled by an upload
\* during the first batch and was skipped at its turn, which ended the run.
C30_Witness ==
    /\ lastOp.op = "turn"
    /\ lastOp.id = "c2"
    /\ ~lastOp.hit
    /\ charTasks = <<>>
    /\ charError = AllFailedMessage
    /\ Len(getCharacter(ls, "c2")[1].referenceImages) = MaxReferenceImages
    /\ getCharacter(ls, "c1")[1].referenceImages = <<>>
=============================================================================
